---- MODULE Spec2Model ----
(***************************************************************************)
(* A model of the editor kernel of editor_cli: the line-oriented           *)
(* TextEditor with its commands (text_editor.py, commands.py) and the      *)
(* XmlEditor with its commands (xml_editor.py, xml_commands.py).           *)
(*                                                                         *)
(* A string is a sequence of one-character strings, "\n" being the newline *)
(* character.  A Python list is a sequence; Python's 0-based indexes are   *)
(* kept in the command records (line_index) and shifted by one where a     *)
(* sequence is indexed.                                                    *)
(***************************************************************************)
EXTENDS Integers, Sequences, FiniteSets, TLC

VARIABLES
    kind,        \* "text": the editor is a TextEditor; "xml": an XmlEditor
    lines,       \* TextEditor.lines
    undo_stack,  \* the editor's _undo_stack (last element is the top)
    redo_stack,  \* the editor's _redo_stack
    modified,    \* Editor.modified
    elems,       \* the elements created so far: elems[h] is the element with
                 \* handle h, its tag, id attribute, text and child handles
    id_map,      \* XmlEditor.id_map: id attribute -> handle
    parent_map,  \* XmlEditor.parent_map: handle -> handle of the parent
    nops,        \* number of forward operations that returned normally
    nur,         \* number of undo and redo calls that found a command to apply
    last,        \* the last call: its name, outcome, arguments and the
                 \* editor state before it
    emitted,     \* the number of command events a subscriber of the
                 \* Workspace's EventBus has been handed
    event,       \* the latest of them
    seen,        \* the editor as that subscriber found it when it was
                 \* handed the latest event
    subscribers, \* EventBus._subscribers["command"]: the handlers, in the
                 \* order of their subscription
    delivery,    \* the latest emit: the handlers it called, in order, and
                 \* whether it returned normally
    disk,        \* the files of the working directory, the log file of
                 \* each of them and the state file
    editors,     \* Workspace.editors: the open editors, in insertion order
    active,      \* Workspace.active: the path of the active editor, or None
    file_logger, \* Workspace.file_logger: enabled_files and session_started
    log_mark,    \* the length of each log file when the program was started
    ncmds,       \* number of commands given to the Workspace
    last_cmd     \* the last of them, with the file that was active before it

vars ==
    <<kind, lines, undo_stack, redo_stack, modified, elems, id_map, parent_map,
      nops, nur, last, emitted, event, seen, subscribers, delivery,
      disk, editors, active, file_logger, log_mark, ncmds, last_cmd>>

xmlVars == <<elems, id_map, parent_map>>

busVars == <<emitted, event, seen, delivery>>

editorVars ==
    <<kind, lines, undo_stack, redo_stack, modified, elems, id_map, parent_map,
      nops, nur, last>>

sessionVars == <<disk, editors, active, file_logger, log_mark, ncmds, last_cmd>>

(***************************************************************************)
(* Bounds of the model.                                                    *)
(***************************************************************************)
MaxOps == 2
MaxLines == 3
MaxUR == 2

NL == "\n"

\* The texts the caller passes to insert, replace and append.
TextInputs ==
    { <<"x">>, <<"x", NL>>, <<NL, NL, "y">> }

\* The lengths the caller passes to delete and replace (main.py converts the
\* argument with int(), so a negative length is accepted).
LengthInputs == {0 - 1, 1, 2}

\* The line sequences a TextEditor is created with: from_file of a missing
\* path or init_new without log (no line), from_file of an existing file
\* (content.split("\n"), one line at least).
InitialLines ==
    { <<>>, << <<"a">>, <<"b">> >> }

(***************************************************************************)
(* Python primitives.                                                      *)
(***************************************************************************)
Min(a, b) == IF a < b THEN a ELSE b
Max(a, b) == IF a > b THEN a ELSE b

\* The position a slice bound n denotes in s: negative bounds count from the
\* end, and every bound is clamped to 0..len(s).
Clamp(s, n) == IF n < 0 THEN Max(Len(s) + n, 0) ELSE Min(n, Len(s))

\* s[n:]
PyFrom(s, n) == SubSeq(s, Clamp(s, n) + 1, Len(s))

\* s[:n]
PyUpTo(s, n) == SubSeq(s, 1, Clamp(s, n))

\* list.insert(i, x) for i >= 0
ListInsert(s, i, x) ==
    SubSeq(s, 1, Min(i, Len(s))) \o <<x>> \o SubSeq(s, Min(i, Len(s)) + 1, Len(s))

\* list.pop(i) for 0 <= i < len(s)
ListPop(s, i) == SubSeq(s, 1, i) \o SubSeq(s, i + 2, Len(s))

HasNL(s) == \E i \in 1..Len(s) : s[i] = NL

FirstNL(s) == CHOOSE i \in 1..Len(s) : s[i] = NL /\ \A j \in 1..(i - 1) : s[j] # NL

\* text.split("\n")
RECURSIVE Split(_)
Split(s) ==
    IF ~HasNL(s) THEN <<s>>
    ELSE <<SubSeq(s, 1, FirstNL(s) - 1)>> \o Split(SubSeq(s, FirstNL(s) + 1, Len(s)))

(***************************************************************************)
(* Errors.  TextEditorError carries one of three messages; they are named  *)
(* here after the condition each reports.  IndexError is the built-in      *)
(* exception of an index outside a list.                                   *)
(***************************************************************************)
OK == "ok"
EmptyDocumentInvalidPosition == "EmptyDocumentInvalidPosition"
PositionOutOfBounds == "PositionOutOfBounds"
LengthExceedsLine == "LengthExceedsLine"
IndexError == "IndexError"
NothingToDo == "nothing"

ValidationErrors ==
    {EmptyDocumentInvalidPosition, PositionOutOfBounds, LengthExceedsLine}

(***************************************************************************)
(* Commands (commands.py, and the two composite changes of                 *)
(* text_editor.py).  One record shape serves every command class; a field  *)
(* a class does not have keeps its default.                                *)
(***************************************************************************)
Cmd(type, line, col, length, text, prev_line, count, snapshot) ==
    [type |-> type, line |-> line, col |-> col, length |-> length,
     text |-> text, prev_line |-> prev_line,
     prev_after_lines_count |-> count, after_delete_snapshot |-> snapshot]

TextInsertCommand(line, col, text) ==
    Cmd("TextInsertCommand", line, col, 0, text, <<>>, 0, <<>>)

TextDeleteCommand(line, col, length) ==
    Cmd("TextDeleteCommand", line, col, length, <<>>, <<>>, 0, <<>>)

TextReplaceCommand(line, col, length, text) ==
    Cmd("TextReplaceCommand", line, col, length, text, <<>>, 0, <<>>)

\* line_index is 0-based, as in the code; it is kept in the field line.
CompositeLineChange(line_index, prev_line, count) ==
    Cmd("_CompositeLineChange", line_index, 0, 0, <<>>, prev_line, count, <<>>)

CompositeReplaceChange(line_index, prev_line, snapshot) ==
    Cmd("_CompositeReplaceChange", line_index, 0, 0, <<>>, prev_line, 0, snapshot)

SingleLineTypes == {"TextInsertCommand", "TextDeleteCommand", "TextReplaceCommand"}

\* The line a single-line command writes: current[:pos] + text + current[pos+length:]
NewLine(cmd, current) ==
    LET pos == cmd.col - 1 IN
    CASE cmd.type = "TextInsertCommand" ->
            PyUpTo(current, pos) \o cmd.text \o PyFrom(current, pos)
      [] cmd.type = "TextDeleteCommand" ->
            PyUpTo(current, pos) \o PyFrom(current, pos + cmd.length)
      [] cmd.type = "TextReplaceCommand" ->
            PyUpTo(current, pos) \o cmd.text \o PyFrom(current, pos + cmd.length)

\* cmd.execute() on the buffer ls: the outcome, the buffer and the command
\* (execute stores the line it overwrites in _prev_line).  The composite
\* changes' execute is `pass`.
Execute(cmd, ls) ==
    IF cmd.type \in SingleLineTypes
    THEN IF cmd.line > Len(ls)
         THEN [err |-> IndexError, lines |-> ls, cmd |-> cmd]
         ELSE [err |-> OK,
               lines |-> [ls EXCEPT ![cmd.line] = NewLine(cmd, ls[cmd.line])],
               cmd |-> [cmd EXCEPT !.prev_line = ls[cmd.line]]]
    ELSE [err |-> OK, lines |-> ls, cmd |-> cmd]

\* The loop of _CompositeLineChange.undo: n times, pop the line after
\* line_index if there is one.
RECURSIVE PopAfter(_, _, _)
PopAfter(ls, line_index, n) ==
    IF n = 0 THEN ls
    ELSE PopAfter(IF line_index + 1 < Len(ls) THEN ListPop(ls, line_index + 1) ELSE ls,
                  line_index, n - 1)

\* cmd.undo() on the buffer ls.
UndoCmd(cmd, ls) ==
    CASE cmd.type \in SingleLineTypes ->
            IF cmd.line > Len(ls)
            THEN [err |-> IndexError, lines |-> ls]
            ELSE [err |-> OK, lines |-> [ls EXCEPT ![cmd.line] = cmd.prev_line]]
      [] cmd.type = "_CompositeLineChange" ->
            LET popped == PopAfter(ls, cmd.line, cmd.prev_after_lines_count) IN
            IF cmd.line >= Len(popped)
            THEN [err |-> IndexError, lines |-> popped]
            ELSE [err |-> OK, lines |-> [popped EXCEPT ![cmd.line + 1] = cmd.prev_line]]
      [] cmd.type = "_CompositeReplaceChange" ->
            LET snap == cmd.after_delete_snapshot IN
            [err |-> OK,
             lines |-> IF cmd.line < Len(snap)
                       THEN [snap EXCEPT ![cmd.line + 1] = cmd.prev_line]
                       ELSE snap]

(***************************************************************************)
(* TextEditor.  An editor state is a record of the four fields; every      *)
(* method is an operator from the state and the arguments to the outcome   *)
(* (err) and the state the call leaves behind, also when it raises.        *)
(***************************************************************************)
Ed(ls, undo, redo, mod) ==
    [lines |-> ls, undo |-> undo, redo |-> redo, modified |-> mod]

Out(err, ed) == [err |-> err, ed |-> ed]

\* _ensure_position taking the last character of the line as the last
\* position; C29 fails under it.
EnsurePositionInsideLine(ls, line, col) ==
    IF line < 1 \/ (Len(ls) = 0 /\ (line # 1 \/ col # 1))
    THEN EmptyDocumentInvalidPosition
    ELSE IF line > Len(ls) THEN PositionOutOfBounds
    ELSE IF col < 1 THEN PositionOutOfBounds
    ELSE IF col > (IF Len(ls) > 0 THEN Len(ls[line]) ELSE 0)
         THEN PositionOutOfBounds
    ELSE OK

\* TextEditor._ensure_position: the error it raises, or OK.
EnsurePosition(ls, line, col) ==
    IF line < 1 \/ (Len(ls) = 0 /\ (line # 1 \/ col # 1))
    THEN EmptyDocumentInvalidPosition
    ELSE IF line > Len(ls) THEN PositionOutOfBounds
    ELSE IF col < 1 THEN PositionOutOfBounds
    ELSE IF col - 1 > (IF Len(ls) > 0 THEN Len(ls[line]) ELSE 0)
         THEN PositionOutOfBounds
    ELSE OK

\* _push_command without self._redo_stack.clear(); C5 fails under it.
PushExecutedKeepingRedo(ed, x) ==
    Ed(x.lines, Append(ed.undo, x.cmd), ed.redo, TRUE)

\* What _push_command does after cmd.execute(): the command goes on the undo
\* stack, the redo stack is cleared, the document is marked modified.
PushExecuted(ed, x) ==
    Ed(x.lines, Append(ed.undo, x.cmd), <<>>, TRUE)

\* TextEditor._push_command
PushCommand(ed, cmd) ==
    LET x == Execute(cmd, ed.lines) IN
    IF x.err # OK THEN Out(x.err, ed) ELSE Out(OK, PushExecuted(ed, x))

\* for mid in parts[1:-1]: lines.insert(insert_pos, mid); insert_pos += 1
RECURSIVE InsertMids(_, _, _)
InsertMids(ls, insert_pos, mids) ==
    IF mids = <<>> THEN ls
    ELSE InsertMids(ListInsert(ls, insert_pos, Head(mids)), insert_pos + 1, Tail(mids))

\* The condition under which the multi-line branch of insert inserts the
\* last line, parts[-1] + after.
InsertsLastLine(lastPart, after) == lastPart # <<>> \/ after # <<>>

\* The count the multi-line branch of insert records in the composite
\* command as prev_after_lines_count.
RecordedCount(parts) == Len(parts) - 1

\* The multi-line branch of TextEditor.insert (len(parts) > 1), after
\* validation.
InsertMulti(ed, line, col, parts) ==
    LET idx == line - 1
        pos == col - 1
        original == ed.lines[idx + 1]
        after == PyFrom(original, pos)
        cmd1 == TextReplaceCommand(line, col, Len(original) - pos, parts[1])
        ls1 == Execute(cmd1, ed.lines).lines
        mids == SubSeq(parts, 2, Len(parts) - 1)
        ls2 == InsertMids(ls1, idx + 1, mids)
        insert_pos == idx + 1 + Len(mids)
        lastPart == parts[Len(parts)]
        ls3 == IF InsertsLastLine(lastPart, after)
               THEN ListInsert(ls2, insert_pos, lastPart \o after)
               ELSE ls2
    IN  Out(OK, Ed(ls3,
                   Append(ed.undo, CompositeLineChange(idx, original, RecordedCount(parts))),
                   <<>>, TRUE))

\* insert giving an empty document its first line before the check of the
\* position (1, 1); C6 fails under it.
InsertSeedingFirst(ed, line, col, text) ==
    LET parts == Split(text)
        ed1 == IF ed.lines = <<>> THEN [ed EXCEPT !.lines = << <<>> >>] ELSE ed
        e == EnsurePosition(ed1.lines, line, col)
    IN  IF e # OK THEN Out(e, ed1)
        ELSE IF Len(parts) = 1
             THEN PushCommand(ed1, TextInsertCommand(line, col, parts[1]))
             ELSE InsertMulti(ed1, line, col, parts)

\* insert taking the text as one part, without text.split("\n"); C18 fails
\* under it.
InsertUnsplit(ed, line, col, text) ==
    IF ed.lines = <<>> /\ ~(line = 1 /\ col = 1)
    THEN Out(EmptyDocumentInvalidPosition, ed)
    ELSE LET ed1 == IF ed.lines = <<>> THEN [ed EXCEPT !.lines = << <<>> >>] ELSE ed
             e == EnsurePosition(ed1.lines, line, col)
         IN  IF e # OK THEN Out(e, ed1)
             ELSE PushCommand(ed1, TextInsertCommand(line, col, text))

\* insert checking only the line of the position on an empty document; C15
\* fails under it.
InsertSeedingOnLineOne(ed, line, col, text) ==
    LET parts == Split(text) IN
    IF ed.lines = <<>> /\ line # 1
    THEN Out(EmptyDocumentInvalidPosition, ed)
    ELSE LET ed1 == IF ed.lines = <<>> THEN [ed EXCEPT !.lines = << <<>> >>] ELSE ed
             e == EnsurePosition(ed1.lines, line, col)
         IN  IF e # OK THEN Out(e, ed1)
             ELSE IF Len(parts) = 1
                  THEN PushCommand(ed1, TextInsertCommand(line, col, parts[1]))
                  ELSE InsertMulti(ed1, line, col, parts)

\* TextEditor.insert
Insert(ed, line, col, text) ==
    LET parts == Split(text) IN
    IF ed.lines = <<>> /\ ~(line = 1 /\ col = 1)
    THEN Out(EmptyDocumentInvalidPosition, ed)
    ELSE LET ed1 == IF ed.lines = <<>> THEN [ed EXCEPT !.lines = << <<>> >>] ELSE ed
             e == EnsurePosition(ed1.lines, line, col)
         IN  IF e # OK THEN Out(e, ed1)
             ELSE IF Len(parts) = 1
                  THEN PushCommand(ed1, TextInsertCommand(line, col, parts[1]))
                  ELSE InsertMulti(ed1, line, col, parts)

\* delete comparing the length with the whole line instead of the part from
\* col on; C14 fails under it.
DeleteMeasuringWholeLine(ed, line, col, length) ==
    IF ed.lines = <<>> THEN Out(PositionOutOfBounds, ed)
    ELSE LET e == EnsurePosition(ed.lines, line, col) IN
         IF e # OK THEN Out(e, ed)
         ELSE IF length > Len(ed.lines[line])
              THEN Out(LengthExceedsLine, ed)
              ELSE PushCommand(ed, TextDeleteCommand(line, col, length))

\* TextEditor.delete
Delete(ed, line, col, length) ==
    IF ed.lines = <<>> THEN Out(PositionOutOfBounds, ed)
    ELSE LET e == EnsurePosition(ed.lines, line, col) IN
         IF e # OK THEN Out(e, ed)
         ELSE IF length > Len(ed.lines[line]) - (col - 1)
              THEN Out(LengthExceedsLine, ed)
              ELSE PushCommand(ed, TextDeleteCommand(line, col, length))

\* The multi-line branch of replace taking its snapshot after self.insert
\* instead of before it; C11 fails under it.
ReplaceMultiSnapshotLate(ed, line, col, length, text) ==
    LET idx == line - 1
        prev_line == ed.lines[line]
        del == Execute(TextDeleteCommand(line, col, length), ed.lines)
        ed1 == [ed EXCEPT !.lines = del.lines]
        r == Insert(ed1, line, col, text)
    IN  IF r.err # OK THEN r
        ELSE Out(OK, [r.ed EXCEPT !.undo =
                 Append(r.ed.undo, CompositeReplaceChange(idx, prev_line, r.ed.lines))])

\* The multi-line branch of TextEditor.replace ("\n" in text), after
\* validation: delete, snapshot, self.insert, and one more command pushed.
ReplaceMulti(ed, line, col, length, text) ==
    LET idx == line - 1
        prev_line == ed.lines[line]
        del == Execute(TextDeleteCommand(line, col, length), ed.lines)
        ed1 == [ed EXCEPT !.lines = del.lines]
        after_delete_state == del.lines
        r == Insert(ed1, line, col, text)
    IN  IF r.err # OK THEN r
        ELSE Out(OK, [r.ed EXCEPT !.undo =
                 Append(r.ed.undo, CompositeReplaceChange(idx, prev_line, after_delete_state))])

\* replace putting the text at col without removing the `length` characters;
\* C34 fails under it.
ReplaceKeepingRun(ed, line, col, length, text) ==
    IF ed.lines = <<>> THEN Out(PositionOutOfBounds, ed)
    ELSE LET e == EnsurePosition(ed.lines, line, col) IN
         IF e # OK THEN Out(e, ed)
         ELSE IF length > Len(ed.lines[line]) - (col - 1)
              THEN Out(LengthExceedsLine, ed)
              ELSE IF HasNL(text)
                   THEN ReplaceMulti(ed, line, col, 0, text)
                   ELSE PushCommand(ed, TextReplaceCommand(line, col, 0, text))

\* TextEditor.replace
Replace(ed, line, col, length, text) ==
    IF ed.lines = <<>> THEN Out(PositionOutOfBounds, ed)
    ELSE LET e == EnsurePosition(ed.lines, line, col) IN
         IF e # OK THEN Out(e, ed)
         ELSE IF length > Len(ed.lines[line]) - (col - 1)
              THEN Out(LengthExceedsLine, ed)
              ELSE IF HasNL(text)
                   THEN ReplaceMulti(ed, line, col, length, text)
                   ELSE PushCommand(ed, TextReplaceCommand(line, col, length, text))

\* append leaving the appended line in place and inserting the text into
\* it; C12 fails under it.
AppendTextKeepingLine(ed, text) ==
    LET new_line_index == Len(ed.lines) + 1
        ed1 == Ed(Append(ed.lines, text), ed.undo, <<>>, TRUE)
    IN  Insert(ed1, new_line_index, 1, text)

\* TextEditor.append: the line is appended and popped again, an empty line
\* is appended in its place and the text is inserted into it.
AppendText(ed, text) ==
    LET new_line_index == Len(ed.lines) + 1
        ed1 == Ed(Append(ed.lines, <<>>), ed.undo, <<>>, TRUE)
    IN  Insert(ed1, new_line_index, 1, text)

\* TextEditor.undo: NothingToDo stands for `return False`.
Undo(ed) ==
    IF ed.undo = <<>> THEN Out(NothingToDo, ed)
    ELSE LET cmd == ed.undo[Len(ed.undo)]
             popped == [ed EXCEPT !.undo = SubSeq(ed.undo, 1, Len(ed.undo) - 1)]
             x == UndoCmd(cmd, ed.lines)
         IN  IF x.err # OK THEN Out(x.err, [popped EXCEPT !.lines = x.lines])
             ELSE Out(OK, Ed(x.lines, popped.undo, Append(ed.redo, cmd), TRUE))

\* TextEditor.redo
Redo(ed) ==
    IF ed.redo = <<>> THEN Out(NothingToDo, ed)
    ELSE LET cmd == ed.redo[Len(ed.redo)]
             popped == [ed EXCEPT !.redo = SubSeq(ed.redo, 1, Len(ed.redo) - 1)]
             x == Execute(cmd, ed.lines)
         IN  IF x.err # OK THEN Out(x.err, popped)
             ELSE Out(OK, Ed(x.lines, Append(ed.undo, x.cmd), popped.redo, TRUE))

(***************************************************************************)
(* The state machine of one TextEditor.  Each action is one call of a      *)
(* public method with arguments of the caller's choice.  A call that       *)
(* raises and leaves every field as it was is a step that changes nothing; *)
(* every other call is recorded in `last`, with the state it started from. *)
(***************************************************************************)
CurEd == Ed(lines, undo_stack, redo_stack, modified)

NoArgs == [line |-> 0, col |-> 0, length |-> 0, text |-> <<>>]

Args(line, col, length, text) ==
    [line |-> line, col |-> col, length |-> length, text |-> text]

Call(op, err, args, pre) == [op |-> op, err |-> err, args |-> args, pre |-> pre]

NoEd == Ed(<<>>, <<>>, <<>>, FALSE)

NoCall == Call("none", OK, NoArgs, NoEd)

\* events.CommandEvent; the file is the active file, the one document of the
\* model, and args holds the values the code formats into the args string.
CommandEvent(command, args) == [command |-> command, args |-> args]

NoEvent == CommandEvent("none", NoArgs)

\* Before the first emit.
NoDelivery == [calls |-> <<>>, returned |-> TRUE]

\* The EventBus after Workspace.create: one handler subscribed to "command",
\* nothing emitted.
NoBus ==
    /\ emitted = 0
    /\ event = NoEvent
    /\ seen = NoEd
    /\ subscribers = <<"recorder">>
    /\ delivery = NoDelivery

\* Python's None, where a string stands.
None == "<None>"

\* An editor on its own: there is no Workspace, no FileLogger and no file.
NoSession ==
    /\ disk = None
    /\ editors = <<>>
    /\ active = None
    /\ file_logger = None
    /\ log_mark = None
    /\ ncmds = 0
    /\ last_cmd = None

ForwardOps == {"insert", "delete", "replace", "append"}

\* The arguments the caller may pass in the current state: every line from
\* one before the first to one after the last, every column from 0 to two
\* past the longest line.
LineArgs == 0..(Len(lines) + 1)

RECURSIVE MaxLineLen(_)
MaxLineLen(ls) == IF ls = <<>> THEN 0 ELSE Max(Len(Head(ls)), MaxLineLen(Tail(ls)))

ColArgs == 0..(MaxLineLen(lines) + 2)

\* The forward operations are explored while fewer than MaxOps of them have
\* returned normally and the document has fewer than MaxLines lines.
CanEdit == kind = "text" /\ nops < MaxOps /\ Len(lines) < MaxLines

\* undo and redo are explored while fewer than MaxUR of them have found a
\* command on their stack.
CanUndoRedo == kind = "text" /\ nur < MaxUR

\* What a call `op` of the editor whose outcome is r does to the editor.
\* The state before the call is recorded for the forward operations.
TextCall(op, args, r) ==
    /\ lines' = r.ed.lines
    /\ undo_stack' = r.ed.undo
    /\ redo_stack' = r.ed.redo
    /\ modified' = r.ed.modified
    /\ last' = IF r.err = OK \/ r.ed # CurEd
               THEN Call(op, r.err, args, IF op \in ForwardOps THEN CurEd ELSE NoEd)
               ELSE last
    /\ nur' = IF r.err # NothingToDo /\ op \notin ForwardOps THEN nur + 1 ELSE nur
    /\ nops' = IF r.err = OK /\ op \in ForwardOps THEN nops + 1 ELSE nops
    /\ UNCHANGED <<kind, xmlVars, subscribers, sessionVars>>

\* The step of a call `op` made on the editor itself: no event is emitted.
TextStep(op, args, r) == TextCall(op, args, r) /\ UNCHANGED busVars

TInsert ==
    /\ CanEdit
    /\ \E line \in LineArgs, col \in ColArgs, text \in TextInputs :
          TextStep("insert", Args(line, col, 0, text), Insert(CurEd, line, col, text))

TDelete ==
    /\ CanEdit
    /\ \E line \in LineArgs, col \in ColArgs, length \in LengthInputs :
          TextStep("delete", Args(line, col, length, <<>>), Delete(CurEd, line, col, length))

TReplace ==
    /\ CanEdit
    /\ \E line \in LineArgs, col \in ColArgs, length \in LengthInputs, text \in TextInputs :
          TextStep("replace", Args(line, col, length, text),
                   Replace(CurEd, line, col, length, text))

TAppend ==
    /\ CanEdit
    /\ \E text \in TextInputs :
          TextStep("append", Args(0, 0, 0, text), AppendText(CurEd, text))

TUndo ==
    /\ CanUndoRedo
    /\ TextStep("undo", NoArgs, Undo(CurEd))

TRedo ==
    /\ CanUndoRedo
    /\ TextStep("redo", NoArgs, Redo(CurEd))

\* A TextEditor after construction: from_file sets modified when the path
\* does not exist (no line), init_new sets it always.
InitText ==
    /\ kind = "text"
    /\ lines \in InitialLines
    /\ undo_stack = <<>>
    /\ redo_stack = <<>>
    /\ modified \in (IF lines = <<>> THEN {TRUE} ELSE BOOLEAN)
    /\ elems = <<>>
    /\ id_map = <<>>
    /\ parent_map = <<>>
    /\ nops = 0
    /\ nur = 0
    /\ last = NoCall
    /\ NoBus
    /\ NoSession

NextText == TInsert \/ TDelete \/ TReplace \/ TAppend \/ TUndo \/ TRedo

SpecText == InitText /\ [][NextText]_vars

(***************************************************************************)
(* XmlEditor.  An ElementTree element is a record held in `elems` under    *)
(* its handle (its identity); handle 1 is root_element and handle 0 stands *)
(* for None.  A dict is a function; id_map has strings in its domain,      *)
(* parent_map handles.                                                     *)
(***************************************************************************)
NoElement == 0
RootHandle == 1

DuplicateId == "DuplicateId"
UnknownId == "UnknownId"
RootElementProtected == "RootElementProtected"
KeyError == "KeyError"
ValueError == "ValueError"

XmlValidationErrors == {DuplicateId, UnknownId, RootElementProtected}

\* The arguments the caller passes to the tree operations.
TagInputs == {"item"}
IdInputs == {"", "a", "b", "root"}
XmlTextInputs == {"", "hi"}

Element(tag, id, text, children) ==
    [tag |-> tag, id |-> id, text |-> text, children |-> children]

\* d[k] = v
DictSet(d, k, v) == [x \in DOMAIN d \cup {k} |-> IF x = k THEN v ELSE d[x]]

\* del d[k], for a key of d
DictDel(d, k) == [x \in DOMAIN d \ {k} |-> d[x]]

\* list.index(x), 0-based, for an x that occurs in s
IndexOf(s, x) == (CHOOSE i \in 1..Len(s) : s[i] = x /\ \A j \in 1..(i - 1) : s[j] # x) - 1

Contains(s, x) == \E i \in 1..Len(s) : s[i] = x

\* list.remove(x): the first occurrence goes
ListRemove(s, x) == ListPop(s, IndexOf(s, x))

\* An XmlEditor state.
Xs(es, idm, pm, undo, redo, mod) ==
    [elems |-> es, id_map |-> idm, parent_map |-> pm,
     undo |-> undo, redo |-> redo, modified |-> mod]

\* The tree commands of xml_commands.py, in one record shape.  `a` is the
\* new id (insert_before, append_child, edit_id) and `b` the id the command
\* looks up: target_id, parent_id, old_id or element_id.  The other fields
\* are the ones execute() fills: _created_element, _element, _old_text,
\* _deleted_element, _parent, _index and _deleted_subtree_ids (the ids in
\* insertion order; each id collected maps to the element in ids_map).
XCmd(type, tag, a, b, text) ==
    [type |-> type, tag |-> tag, a |-> a, b |-> b, text |-> text,
     element |-> NoElement, old_text |-> None, parent |-> NoElement,
     index |-> 0 - 1, ids |-> <<>>, ids_map |-> <<>>]

XmlInsertBeforeCommand(tag, new_id, target_id, text) ==
    XCmd("XmlInsertBeforeCommand", tag, new_id, target_id, text)

XmlAppendChildCommand(tag, new_id, parent_id, text) ==
    XCmd("XmlAppendChildCommand", tag, new_id, parent_id, text)

XmlEditIdCommand(old_id, new_id) == XCmd("XmlEditIdCommand", "", new_id, old_id, "")

XmlEditTextCommand(element_id, text) == XCmd("XmlEditTextCommand", "", "", element_id, text)

XmlDeleteCommand(element_id) == XCmd("XmlDeleteCommand", "", "", element_id, "")

\* The outcome of a command's execute() or undo(): the error raised or OK,
\* the state left behind and the command with the fields it stored.
XOut(err, xs, cmd) == [err |-> err, xs |-> xs, cmd |-> cmd]

\* ET.Element(tag); set("id", new_id); text only when it is non-empty.
NewElement(cmd) ==
    Element(cmd.tag, cmd.a, IF cmd.text # "" THEN cmd.text ELSE None, <<>>)

\* insert_before putting the new element behind the target; C24 fails under
\* it.
InsertIndexBehind(children, target) == IndexOf(children, target) + 1

\* Where insert_before puts the new element among the parent's children:
\* at the target's index.
InsertIndex(children, target) == IndexOf(children, target)

\* XmlInsertBeforeCommand.execute
InsertBeforeExecute(xs, cmd) ==
    IF cmd.b \notin DOMAIN xs.id_map THEN XOut(KeyError, xs, cmd)
    ELSE LET target == xs.id_map[cmd.b] IN
    IF target \notin DOMAIN xs.parent_map THEN XOut(KeyError, xs, cmd)
    ELSE LET parent == xs.parent_map[target]
             h == Len(xs.elems) + 1
         IN
    IF ~Contains(xs.elems[parent].children, target) THEN XOut(ValueError, xs, cmd)
    ELSE LET kids == xs.elems[parent].children
             es == [Append(xs.elems, NewElement(cmd)) EXCEPT
                       ![parent].children = ListInsert(kids, InsertIndex(kids, target), h)]
         IN  XOut(OK,
                  [xs EXCEPT !.elems = es,
                             !.id_map = DictSet(xs.id_map, cmd.a, h),
                             !.parent_map = DictSet(xs.parent_map, h, parent)],
                  [cmd EXCEPT !.element = h])

\* XmlInsertBeforeCommand.undo: a ValueError of remove is swallowed.
InsertBeforeUndo(xs, cmd) ==
    IF cmd.element = NoElement THEN XOut(OK, xs, cmd)
    ELSE IF cmd.element \notin DOMAIN xs.parent_map THEN XOut(KeyError, xs, cmd)
    ELSE LET parent == xs.parent_map[cmd.element]
             kids == xs.elems[parent].children
             es == IF Contains(kids, cmd.element)
                   THEN [xs.elems EXCEPT ![parent].children = ListRemove(kids, cmd.element)]
                   ELSE xs.elems
             xs1 == [xs EXCEPT !.elems = es]
         IN
    IF cmd.a \notin DOMAIN xs.id_map THEN XOut(KeyError, xs1, cmd)
    ELSE XOut(OK,
              [xs1 EXCEPT !.id_map = DictDel(xs.id_map, cmd.a),
                          !.parent_map = DictDel(xs.parent_map, cmd.element)],
              cmd)

\* append_child putting the new element in front of the parent's children;
\* C25 fails under it.
AppendChildExecuteInFront(xs, cmd) ==
    IF cmd.b \notin DOMAIN xs.id_map THEN XOut(KeyError, xs, cmd)
    ELSE LET parent == xs.id_map[cmd.b]
             h == Len(xs.elems) + 1
             es == [Append(xs.elems, NewElement(cmd)) EXCEPT
                       ![parent].children = <<h>> \o xs.elems[parent].children]
         IN  XOut(OK,
                  [xs EXCEPT !.elems = es,
                             !.id_map = DictSet(xs.id_map, cmd.a, h),
                             !.parent_map = DictSet(xs.parent_map, h, parent)],
                  [cmd EXCEPT !.element = h])

\* XmlAppendChildCommand.execute
AppendChildExecute(xs, cmd) ==
    IF cmd.b \notin DOMAIN xs.id_map THEN XOut(KeyError, xs, cmd)
    ELSE LET parent == xs.id_map[cmd.b]
             h == Len(xs.elems) + 1
             es == [Append(xs.elems, NewElement(cmd)) EXCEPT
                       ![parent].children = Append(xs.elems[parent].children, h)]
         IN  XOut(OK,
                  [xs EXCEPT !.elems = es,
                             !.id_map = DictSet(xs.id_map, cmd.a, h),
                             !.parent_map = DictSet(xs.parent_map, h, parent)],
                  [cmd EXCEPT !.element = h])

\* XmlAppendChildCommand.undo
AppendChildUndo(xs, cmd) ==
    IF cmd.element = NoElement THEN XOut(OK, xs, cmd)
    ELSE IF cmd.element \notin DOMAIN xs.parent_map THEN XOut(KeyError, xs, cmd)
    ELSE LET parent == xs.parent_map[cmd.element]
             kids == xs.elems[parent].children
         IN
    IF ~Contains(kids, cmd.element) THEN XOut(ValueError, xs, cmd)
    ELSE LET xs1 == [xs EXCEPT !.elems[parent].children = ListRemove(kids, cmd.element)] IN
    IF cmd.a \notin DOMAIN xs.id_map THEN XOut(KeyError, xs1, cmd)
    ELSE XOut(OK,
              [xs1 EXCEPT !.id_map = DictDel(xs.id_map, cmd.a),
                          !.parent_map = DictDel(xs.parent_map, cmd.element)],
              cmd)

\* edit_id without `del self.id_map[self.old_id]`; C26 fails under it.
EditIdExecuteKeepingOldKey(xs, cmd) ==
    IF cmd.b \notin DOMAIN xs.id_map THEN XOut(KeyError, xs, cmd)
    ELSE LET element == xs.id_map[cmd.b] IN
         XOut(OK,
              [xs EXCEPT !.elems[element].id = cmd.a,
                         !.id_map = DictSet(xs.id_map, cmd.a, element)],
              [cmd EXCEPT !.element = element])

\* XmlEditIdCommand.execute
EditIdExecute(xs, cmd) ==
    IF cmd.b \notin DOMAIN xs.id_map THEN XOut(KeyError, xs, cmd)
    ELSE LET element == xs.id_map[cmd.b] IN
         XOut(OK,
              [xs EXCEPT !.elems[element].id = cmd.a,
                         !.id_map = DictSet(DictDel(xs.id_map, cmd.b), cmd.a, element)],
              [cmd EXCEPT !.element = element])

\* XmlEditIdCommand.undo
EditIdUndo(xs, cmd) ==
    IF cmd.element = NoElement THEN XOut(OK, xs, cmd)
    ELSE LET xs1 == [xs EXCEPT !.elems[cmd.element].id = cmd.b] IN
    IF cmd.a \notin DOMAIN xs.id_map THEN XOut(KeyError, xs1, cmd)
    ELSE XOut(OK,
              [xs1 EXCEPT !.id_map = DictSet(DictDel(xs.id_map, cmd.a), cmd.b, cmd.element)],
              cmd)

\* The text edit_text stores: None when the new text is empty.
StoredText(text) == IF text # "" THEN text ELSE None

\* XmlEditTextCommand.execute
EditTextExecute(xs, cmd) ==
    IF cmd.b \notin DOMAIN xs.id_map THEN XOut(KeyError, xs, cmd)
    ELSE LET element == xs.id_map[cmd.b] IN
         XOut(OK,
              [xs EXCEPT !.elems[element].text = StoredText(cmd.text)],
              [cmd EXCEPT !.old_text = xs.elems[element].text])

\* XmlEditTextCommand.undo
EditTextUndo(xs, cmd) ==
    IF cmd.b \notin DOMAIN xs.id_map THEN XOut(KeyError, xs, cmd)
    ELSE XOut(OK, [xs EXCEPT !.elems[xs.id_map[cmd.b]].text = cmd.old_text], cmd)

\* The elements of the subtree of h in document order (h first).
RECURSIVE PreOrder(_, _)
RECURSIVE PreOrderAll(_, _)
PreOrder(es, h) == <<h>> \o PreOrderAll(es, es[h].children)
PreOrderAll(es, hs) ==
    IF hs = <<>> THEN <<>> ELSE PreOrder(es, Head(hs)) \o PreOrderAll(es, Tail(hs))

\* The elements _collect_ids records: those whose id attribute is truthy.
Collected(es, h) == es[h].id # ""

\* XmlDeleteCommand._collect_ids over the elements hs: the keys of the dict
\* in insertion order.
RECURSIVE CollectIds(_, _, _)
CollectIds(es, hs, ids) ==
    IF hs = <<>> THEN ids
    ELSE CollectIds(es, Tail(hs),
                    IF Collected(es, Head(hs)) /\ ~Contains(ids, es[Head(hs)].id)
                    THEN Append(ids, es[Head(hs)].id) ELSE ids)

\* The dict _collect_ids builds: each id maps to the last element carrying it.
RECURSIVE CollectMap(_, _, _)
CollectMap(es, hs, m) ==
    IF hs = <<>> THEN m
    ELSE CollectMap(es, Tail(hs),
                    IF Collected(es, Head(hs)) THEN DictSet(m, es[Head(hs)].id, Head(hs)) ELSE m)

\* for eid in _deleted_subtree_ids: del id_map[eid] -- the dict it leaves,
\* and whether a key was missing (the loop stops there with KeyError).
RECURSIVE DelIds(_, _)
DelIds(idm, ids) ==
    IF ids = <<>> THEN [err |-> OK, id_map |-> idm]
    ELSE IF Head(ids) \notin DOMAIN idm THEN [err |-> KeyError, id_map |-> idm]
    ELSE DelIds(DictDel(idm, Head(ids)), Tail(ids))

\* The elements delete drops from parent_map: the deleted element and, by
\* _remove_from_parent_map, every element of its subtree.
PurgedFromParentMap(es, element) == {PreOrder(es, element)[i] : i \in 1..Len(PreOrder(es, element))}

\* XmlDeleteCommand.execute
DeleteExecute(xs, cmd) ==
    IF cmd.b \notin DOMAIN xs.id_map THEN XOut(KeyError, xs, cmd)
    ELSE LET element == xs.id_map[cmd.b] IN
    IF element \notin DOMAIN xs.parent_map THEN XOut(KeyError, xs, cmd)
    ELSE LET parent == xs.parent_map[element]
             kids == xs.elems[parent].children
         IN
    IF ~Contains(kids, element) THEN XOut(ValueError, xs, cmd)
    ELSE LET subtree == PreOrder(xs.elems, element)
             cmd1 == [cmd EXCEPT !.element = element, !.parent = parent,
                                 !.index = IndexOf(kids, element),
                                 !.ids = CollectIds(xs.elems, subtree, <<>>),
                                 !.ids_map = CollectMap(xs.elems, subtree, <<>>)]
             xs1 == [xs EXCEPT !.elems[parent].children = ListRemove(kids, element)]
             del == DelIds(xs.id_map, cmd1.ids)
             xs2 == [xs1 EXCEPT !.id_map = del.id_map]
         IN
    IF del.err # OK THEN XOut(del.err, xs2, cmd1)
    ELSE XOut(OK,
              [xs2 EXCEPT !.parent_map =
                  [h \in DOMAIN xs.parent_map \ PurgedFromParentMap(xs.elems, element)
                      |-> xs.parent_map[h]]],
              cmd1)

\* _restore_parent_map without the loop over the children; C21 fails under
\* it.
RestoreParentMapShallow(es, pm, element, parent) == DictSet(pm, element, parent)

\* XmlDeleteCommand._restore_parent_map(element, parent)
RECURSIVE RestoreParentMap(_, _, _, _)
RECURSIVE RestoreChildren(_, _, _, _)
RestoreParentMap(es, pm, element, parent) ==
    RestoreChildren(es, DictSet(pm, element, parent), es[element].children, element)
RestoreChildren(es, pm, hs, parent) ==
    IF hs = <<>> THEN pm
    ELSE RestoreChildren(es, RestoreParentMap(es, pm, Head(hs), parent), Tail(hs), parent)

\* id_map.update(_deleted_subtree_ids)
DictUpdate(d, m) == [x \in DOMAIN d \cup DOMAIN m |-> IF x \in DOMAIN m THEN m[x] ELSE d[x]]

\* The undo of a delete without id_map.update(...); C19 fails under it.
RestoredIdMapForgetting(xs, cmd) == xs.id_map

\* The maps after the undo of a delete: id_map gets every collected id back
\* and parent_map every element of the subtree.
RestoredIdMap(xs, cmd) == DictUpdate(xs.id_map, cmd.ids_map)

\* XmlDeleteCommand.undo
DeleteUndo(xs, cmd) ==
    IF cmd.element = NoElement \/ cmd.parent = NoElement THEN XOut(OK, xs, cmd)
    ELSE LET kids == xs.elems[cmd.parent].children
             es == [xs.elems EXCEPT ![cmd.parent].children =
                                       ListInsert(kids, cmd.index, cmd.element)]
         IN  XOut(OK,
                  [xs EXCEPT !.elems = es,
                             !.id_map = RestoredIdMap(xs, cmd),
                             !.parent_map = RestoreParentMap(es, xs.parent_map,
                                                             cmd.element, cmd.parent)],
                  cmd)

\* cmd.execute() of a tree command
XExecute(xs, cmd) ==
    CASE cmd.type = "XmlInsertBeforeCommand" -> InsertBeforeExecute(xs, cmd)
      [] cmd.type = "XmlAppendChildCommand" -> AppendChildExecute(xs, cmd)
      [] cmd.type = "XmlEditIdCommand" -> EditIdExecute(xs, cmd)
      [] cmd.type = "XmlEditTextCommand" -> EditTextExecute(xs, cmd)
      [] cmd.type = "XmlDeleteCommand" -> DeleteExecute(xs, cmd)

\* cmd.undo() of a tree command
XUndoCmd(xs, cmd) ==
    CASE cmd.type = "XmlInsertBeforeCommand" -> InsertBeforeUndo(xs, cmd)
      [] cmd.type = "XmlAppendChildCommand" -> AppendChildUndo(xs, cmd)
      [] cmd.type = "XmlEditIdCommand" -> EditIdUndo(xs, cmd)
      [] cmd.type = "XmlEditTextCommand" -> EditTextUndo(xs, cmd)
      [] cmd.type = "XmlDeleteCommand" -> DeleteUndo(xs, cmd)

XResult(err, xs) == [err |-> err, xs |-> xs]

\* XmlEditor._push_command: when execute raises, nothing is pushed.
XPushCommand(xs, cmd) ==
    LET x == XExecute(xs, cmd) IN
    IF x.err # OK THEN XResult(x.err, x.xs)
    ELSE XResult(OK, [x.xs EXCEPT !.undo = Append(xs.undo, x.cmd),
                                  !.redo = <<>>,
                                  !.modified = TRUE])

\* XmlEditor.insert_before
InsertBefore(xs, tag, new_id, target_id, text) ==
    IF new_id \in DOMAIN xs.id_map THEN XResult(DuplicateId, xs)
    ELSE IF target_id \notin DOMAIN xs.id_map THEN XResult(UnknownId, xs)
    ELSE IF xs.id_map[target_id] = RootHandle THEN XResult(RootElementProtected, xs)
    ELSE XPushCommand(xs, XmlInsertBeforeCommand(tag, new_id, target_id, text))

\* XmlEditor.append_child
AppendChild(xs, tag, new_id, parent_id, text) ==
    IF new_id \in DOMAIN xs.id_map THEN XResult(DuplicateId, xs)
    ELSE IF parent_id \notin DOMAIN xs.id_map THEN XResult(UnknownId, xs)
    ELSE XPushCommand(xs, XmlAppendChildCommand(tag, new_id, parent_id, text))

\* edit_id without the check for the root element; C20 fails under it.
EditIdUnprotected(xs, old_id, new_id) ==
    IF old_id \notin DOMAIN xs.id_map THEN XResult(UnknownId, xs)
    ELSE IF new_id \in DOMAIN xs.id_map THEN XResult(DuplicateId, xs)
    ELSE XPushCommand(xs, XmlEditIdCommand(old_id, new_id))

\* edit_id checking for the root after the command has run; C7 fails under
\* it.
EditIdRenamingFirst(xs, old_id, new_id) ==
    IF old_id \notin DOMAIN xs.id_map THEN XResult(UnknownId, xs)
    ELSE IF new_id \in DOMAIN xs.id_map THEN XResult(DuplicateId, xs)
    ELSE LET r == XPushCommand(xs, XmlEditIdCommand(old_id, new_id)) IN
         IF xs.id_map[old_id] = RootHandle
         THEN XResult(RootElementProtected, r.xs)
         ELSE r

\* XmlEditor.edit_id
EditId(xs, old_id, new_id) ==
    IF old_id \notin DOMAIN xs.id_map THEN XResult(UnknownId, xs)
    ELSE IF new_id \in DOMAIN xs.id_map THEN XResult(DuplicateId, xs)
    ELSE IF xs.id_map[old_id] = RootHandle THEN XResult(RootElementProtected, xs)
    ELSE XPushCommand(xs, XmlEditIdCommand(old_id, new_id))

\* XmlEditor.edit_text
EditText(xs, element_id, text) ==
    IF element_id \notin DOMAIN xs.id_map THEN XResult(UnknownId, xs)
    ELSE XPushCommand(xs, XmlEditTextCommand(element_id, text))

\* XmlEditor.delete
XDelete(xs, element_id) ==
    IF element_id \notin DOMAIN xs.id_map THEN XResult(UnknownId, xs)
    ELSE IF xs.id_map[element_id] = RootHandle THEN XResult(RootElementProtected, xs)
    ELSE XPushCommand(xs, XmlDeleteCommand(element_id))

\* XmlEditor.undo
XUndo(xs) ==
    IF xs.undo = <<>> THEN XResult(NothingToDo, xs)
    ELSE LET cmd == xs.undo[Len(xs.undo)]
             popped == [xs EXCEPT !.undo = SubSeq(xs.undo, 1, Len(xs.undo) - 1)]
             x == XUndoCmd(popped, cmd)
         IN  IF x.err # OK THEN XResult(x.err, x.xs)
             ELSE XResult(OK, [x.xs EXCEPT !.redo = Append(xs.redo, x.cmd),
                                           !.modified = TRUE])

\* redo moving the command back without cmd.execute(); C4 fails under it.
XRedoMovingOnly(xs) ==
    IF xs.redo = <<>> THEN XResult(NothingToDo, xs)
    ELSE LET cmd == xs.redo[Len(xs.redo)] IN
         XResult(OK, [xs EXCEPT !.redo = SubSeq(xs.redo, 1, Len(xs.redo) - 1),
                                !.undo = Append(xs.undo, cmd),
                                !.modified = TRUE])

\* XmlEditor.redo
XRedo(xs) ==
    IF xs.redo = <<>> THEN XResult(NothingToDo, xs)
    ELSE LET cmd == xs.redo[Len(xs.redo)]
             popped == [xs EXCEPT !.redo = SubSeq(xs.redo, 1, Len(xs.redo) - 1)]
             x == XExecute(popped, cmd)
         IN  IF x.err # OK THEN XResult(x.err, x.xs)
             ELSE XResult(OK, [x.xs EXCEPT !.undo = Append(xs.undo, x.cmd),
                                           !.modified = TRUE])

(***************************************************************************)
(* The state machine of one XmlEditor.                                     *)
(***************************************************************************)
CurXs == Xs(elems, id_map, parent_map, undo_stack, redo_stack, modified)

\* XmlEditor._build_maps over the tree below the root: the ids in document
\* order (a later element with the same id replaces an earlier one) and the
\* parent of every element but the root.
BuildIdMap(es) == CollectMap(es, PreOrder(es, RootHandle), <<>>)

BuildParentMap(es) ==
    LET reach == {PreOrder(es, RootHandle)[i] : i \in 1..Len(PreOrder(es, RootHandle))} IN
    [h \in {c \in reach : \E p \in reach : Contains(es[p].children, c)}
        |-> CHOOSE p \in reach : Contains(es[p].children, h)]

\* The documents an XmlEditor is created with: the default root of init_new
\* and of from_file on a missing path, and a parsed file
\* <root id="root"><item id="a"><item id="b"/></item></root>.
DefaultTree == << Element("root", "root", None, <<>>) >>

ParsedTree ==
    << Element("root", "root", None, <<2>>),
       Element("item", "a", None, <<3>>),
       Element("item", "b", "hi", <<>>) >>

InitialTrees == {DefaultTree, ParsedTree}

XArgs(tag, new_id, id, text) == [tag |-> tag, new_id |-> new_id, id |-> id, text |-> text]

NoXArgs == XArgs("", "", "", "")

NoXs == Xs(<<>>, <<>>, <<>>, <<>>, <<>>, FALSE)

XForwardOps == {"insert_before", "append_child", "edit_id", "edit_text", "delete"}

XCanEdit == kind = "xml" /\ nops < MaxOps

XCanUndoRedo == kind = "xml" /\ nur < MaxUR

\* What a call `op` of the editor whose outcome is r does to the editor.
XmlCall(op, args, r) ==
    /\ elems' = r.xs.elems
    /\ id_map' = r.xs.id_map
    /\ parent_map' = r.xs.parent_map
    /\ undo_stack' = r.xs.undo
    /\ redo_stack' = r.xs.redo
    /\ modified' = r.xs.modified
    /\ last' = IF r.err = OK \/ r.xs # CurXs
               THEN Call(op, r.err, args, IF op \in XForwardOps THEN CurXs ELSE NoXs)
               ELSE last
    /\ nops' = IF r.err = OK /\ op \in XForwardOps THEN nops + 1 ELSE nops
    /\ nur' = IF r.err # NothingToDo /\ op \notin XForwardOps THEN nur + 1 ELSE nur
    /\ UNCHANGED <<kind, lines, subscribers, sessionVars>>

\* The step of a call `op` made on the editor itself: no event is emitted.
XmlStep(op, args, r) == XmlCall(op, args, r) /\ UNCHANGED busVars

XInsertBefore ==
    /\ XCanEdit
    /\ \E tag \in TagInputs, new_id \in IdInputs, target_id \in IdInputs, text \in XmlTextInputs :
          XmlStep("insert_before", XArgs(tag, new_id, target_id, text),
                  InsertBefore(CurXs, tag, new_id, target_id, text))

XAppendChild ==
    /\ XCanEdit
    /\ \E tag \in TagInputs, new_id \in IdInputs, parent_id \in IdInputs, text \in XmlTextInputs :
          XmlStep("append_child", XArgs(tag, new_id, parent_id, text),
                  AppendChild(CurXs, tag, new_id, parent_id, text))

XEditId ==
    /\ XCanEdit
    /\ \E old_id \in IdInputs, new_id \in IdInputs :
          XmlStep("edit_id", XArgs("", new_id, old_id, ""), EditId(CurXs, old_id, new_id))

XEditText ==
    /\ XCanEdit
    /\ \E element_id \in IdInputs, text \in XmlTextInputs :
          XmlStep("edit_text", XArgs("", "", element_id, text),
                  EditText(CurXs, element_id, text))

XDeleteElement ==
    /\ XCanEdit
    /\ \E element_id \in IdInputs :
          XmlStep("delete", XArgs("", "", element_id, ""), XDelete(CurXs, element_id))

XUndoStep ==
    /\ XCanUndoRedo
    /\ XmlStep("undo", NoXArgs, XUndo(CurXs))

XRedoStep ==
    /\ XCanUndoRedo
    /\ XmlStep("redo", NoXArgs, XRedo(CurXs))

\* An XmlEditor after construction: modified unless the file was parsed.
InitXml ==
    /\ kind = "xml"
    /\ lines = <<>>
    /\ undo_stack = <<>>
    /\ redo_stack = <<>>
    /\ elems \in InitialTrees
    /\ id_map = BuildIdMap(elems)
    /\ parent_map = BuildParentMap(elems)
    /\ modified = (elems = DefaultTree)
    /\ nops = 0
    /\ nur = 0
    /\ last = NoCall
    /\ NoBus
    /\ NoSession

NextXml ==
    \/ XInsertBefore \/ XAppendChild \/ XEditId \/ XEditText \/ XDeleteElement
    \/ XUndoStep \/ XRedoStep

SpecXml == InitXml /\ [][NextXml]_vars

(***************************************************************************)
(* save().  Writing the file is outside the model; what save does to the   *)
(* editor is kept: TextEditor.save clears the modified flag, XmlEditor.save *)
(* indents the tree with ET.indent and clears the flag.                    *)
(***************************************************************************)
\* TextEditor.save
Saved(ed) == [ed EXCEPT !.modified = FALSE]

\* The indentation ET.indent writes at a level: a newline and four spaces
\* for each level.
RECURSIVE Pad(_)
Pad(level) == IF level = 0 THEN "\n" ELSE Pad(level - 1) \o "    "

\* not elem.text or not elem.text.strip(), for the texts of the model
Blank(es, text) == text = None \/ text = "" \/ \E l \in 0..Len(es) : text = Pad(l)

\* ET.indent: an element with children gets the indentation of its children
\* as text when its text is blank (the tails are not part of the model).
RECURSIVE IndentElement(_, _, _)
RECURSIVE IndentChildren(_, _, _)
IndentElement(es, h, level) ==
    IF es[h].children = <<>> THEN es
    ELSE IndentChildren([es EXCEPT ![h].text = IF Blank(es, @) THEN Pad(level + 1) ELSE @],
                        es[h].children, level + 1)
IndentChildren(es, hs, level) ==
    IF hs = <<>> THEN es
    ELSE IndentChildren(IndentElement(es, Head(hs), level), Tail(hs), level)

\* XmlEditor.save
XSaved(xs) == [xs EXCEPT !.elems = IndentElement(xs.elems, RootHandle, 0),
                         !.modified = FALSE]

(***************************************************************************)
(* show().  A bound that is omitted is the empty sequence, a bound that is *)
(* given the sequence of its value.  The strings returned are built as the *)
(* f-string builds them.                                                   *)
(***************************************************************************)
\* The string of a sequence of characters.
RECURSIVE Str(_)
Str(s) == IF s = <<>> THEN "" ELSE Head(s) \o Str(Tail(s))

\* str(n) of a natural number
RECURSIVE Decimal(_)
Decimal(n) ==
    LET digits == <<"0", "1", "2", "3", "4", "5", "6", "7", "8", "9">> IN
    IF n < 10 THEN digits[n + 1] ELSE Decimal(n \div 10) \o digits[(n % 10) + 1]

\* show reading from the first line whatever `start` is; C33 fails under it.
ShowFromFirstLine(ed, start, end) ==
    IF ed.lines = <<>> THEN <<>>
    ELSE LET e == IF end = <<>> THEN Len(ed.lines) ELSE Min(Len(ed.lines), end[1])
         IN  IF 1 > e THEN <<>>
             ELSE [k \in 1..e |-> Decimal(k) \o ": " \o Str(ed.lines[k])]

\* TextEditor.show: the list it returns; it assigns to no field.
Show(ed, start, end) ==
    IF ed.lines = <<>> THEN <<>>
    ELSE LET s == IF start = <<>> THEN 1 ELSE Max(1, start[1])
             e == IF end = <<>> THEN Len(ed.lines) ELSE Min(Len(ed.lines), end[1])
         IN  IF s > e THEN <<>>
             ELSE [k \in 1..(e - s + 1) |->
                      Decimal(s + k - 1) \o ": " \o Str(ed.lines[s + k - 1])]

(***************************************************************************)
(* An editor of either kind.                                               *)
(***************************************************************************)
Init == InitText \/ InitXml

Next == NextText \/ NextXml

Spec == Init /\ [][Next]_vars

(***************************************************************************)
(* The edit commands of the Workspace on its active editor.  Each command  *)
(* calls the editor's method and, when the method has returned normally    *)
(* (True for undo and redo), hands a CommandEvent to the EventBus, which   *)
(* calls its subscribers at once.  A TextEditorError or XmlEditorError is  *)
(* turned into the returned message, any other exception leaves the        *)
(* command; neither reaches _emit.  A text command on an XmlEditor, and an *)
(* XML command on a TextEditor, returns its message and does nothing.      *)
(***************************************************************************)
\* The handlers a caller may subscribe: "recorder" counts the events, keeps
\* the latest and looks at the editor; "faulty" raises an Exception.
Handlers == {"recorder", "faulty"}

\* What the subscribers hold, and the calls of the emit under way.
Bus == [emitted |-> emitted, event |-> event, seen |-> seen, calls |-> <<>>]

\* handler(payload): whether it raised, and the bus after it.  The editor is
\* `doc` at that moment.
Handle(h, b, ev, doc) ==
    LET called == [b EXCEPT !.calls = Append(@, h)] IN
    IF h = "recorder"
    THEN [raised |-> FALSE,
          b |-> [called EXCEPT !.emitted = @ + 1, !.event = ev, !.seen = doc]]
    ELSE [raised |-> h = "faulty", b |-> called]

\* The loop of emit without its try/except: the exception of a handler
\* leaves emit; C31 fails under it.
RECURSIVE RunHandlersUnprotected(_, _, _, _)
RunHandlersUnprotected(hs, b, ev, doc) ==
    IF hs = <<>> THEN [returned |-> TRUE, b |-> b]
    ELSE LET x == Handle(Head(hs), b, ev, doc) IN
         IF x.raised THEN [returned |-> FALSE, b |-> x.b]
         ELSE RunHandlersUnprotected(Tail(hs), x.b, ev, doc)

\* The loop of emit: each handler in turn, and `except Exception: pass`
\* around each call.
RECURSIVE RunHandlers(_, _, _, _)
RunHandlers(hs, b, ev, doc) ==
    IF hs = <<>> THEN [returned |-> TRUE, b |-> b]
    ELSE LET x == Handle(Head(hs), b, ev, doc) IN
         RunHandlers(Tail(hs), x.b, ev, doc)

\* EventBus.emit("command", ev) while the editor is `doc`; e is the outcome
\* of its loop.
Emit(ev, doc) ==
    \E e \in {RunHandlers(subscribers, Bus, ev, doc)} :
        /\ emitted' = e.b.emitted
        /\ event' = e.b.event
        /\ seen' = e.b.seen
        /\ delivery' = [calls |-> e.b.calls, returned |-> e.returned]

\* A Workspace command emitting whatever the outcome of the editor's
\* method; C30 fails under it.
NotifyAnyOutcome(r, command, args, doc) ==
    Emit(CommandEvent(command, args), doc)

\* The part of a Workspace command after the editor's method, whose outcome
\* is r and which has left the editor as `doc`.
Notify(r, command, args, doc) ==
    IF r.err = OK THEN Emit(CommandEvent(command, args), doc)
    ELSE UNCHANGED busVars

\* A text command: the editor's method, then the event.
TextCommand(op, args, r) ==
    TextCall(op, args, r) /\ Notify(r, op, args, r.ed)

\* An XML command: `op` is the editor's method, `command` the name emitted.
XmlCommand(op, command, args, r) ==
    XmlCall(op, args, r) /\ Notify(r, command, args, r.xs)

WAppend ==
    /\ CanEdit
    /\ \E text \in TextInputs :
          TextCommand("append", Args(0, 0, 0, text), AppendText(CurEd, text))

WInsert ==
    /\ CanEdit
    /\ \E line \in LineArgs, col \in ColArgs, text \in TextInputs :
          TextCommand("insert", Args(line, col, 0, text), Insert(CurEd, line, col, text))

WDelete ==
    /\ CanEdit
    /\ \E line \in LineArgs, col \in ColArgs, length \in LengthInputs :
          TextCommand("delete", Args(line, col, length, <<>>),
                      Delete(CurEd, line, col, length))

WReplace ==
    /\ CanEdit
    /\ \E line \in LineArgs, col \in ColArgs, length \in LengthInputs, text \in TextInputs :
          TextCommand("replace", Args(line, col, length, text),
                      Replace(CurEd, line, col, length, text))

WInsertBefore ==
    /\ XCanEdit
    /\ \E tag \in TagInputs, new_id \in IdInputs, target_id \in IdInputs, text \in XmlTextInputs :
          XmlCommand("insert_before", "insert-before", XArgs(tag, new_id, target_id, text),
                     InsertBefore(CurXs, tag, new_id, target_id, text))

WAppendChild ==
    /\ XCanEdit
    /\ \E tag \in TagInputs, new_id \in IdInputs, parent_id \in IdInputs, text \in XmlTextInputs :
          XmlCommand("append_child", "append-child", XArgs(tag, new_id, parent_id, text),
                     AppendChild(CurXs, tag, new_id, parent_id, text))

WEditId ==
    /\ XCanEdit
    /\ \E old_id \in IdInputs, new_id \in IdInputs :
          XmlCommand("edit_id", "edit-id", XArgs("", new_id, old_id, ""),
                     EditId(CurXs, old_id, new_id))

WEditText ==
    /\ XCanEdit
    /\ \E element_id \in IdInputs, text \in XmlTextInputs :
          XmlCommand("edit_text", "edit-text", XArgs("", "", element_id, text),
                     EditText(CurXs, element_id, text))

WDeleteElement ==
    /\ XCanEdit
    /\ \E element_id \in IdInputs :
          XmlCommand("delete", "delete", XArgs("", "", element_id, ""),
                     XDelete(CurXs, element_id))

\* Workspace.undo and Workspace.redo take the active editor of either kind.
WUndo ==
    \/ CanUndoRedo /\ TextCommand("undo", NoArgs, Undo(CurEd))
    \/ XCanUndoRedo /\ XmlCommand("undo", "undo", NoXArgs, XUndo(CurXs))

WRedo ==
    \/ CanUndoRedo /\ TextCommand("redo", NoArgs, Redo(CurEd))
    \/ XCanUndoRedo /\ XmlCommand("redo", "redo", NoXArgs, XRedo(CurXs))

NextWorkspace ==
    \/ WAppend \/ WInsert \/ WDelete \/ WReplace
    \/ WInsertBefore \/ WAppendChild \/ WEditId \/ WEditText \/ WDeleteElement
    \/ WUndo \/ WRedo

\* The Workspace with one file loaded and active, and a subscriber that has
\* been handed nothing yet.
SpecWorkspace == Init /\ [][NextWorkspace]_vars

(***************************************************************************)
(* The EventBus with handlers coming and going.  Workspace.create leaves   *)
(* one handler subscribed to "command"; here callers subscribe and         *)
(* unsubscribe others, among them one that raises, while the commands     *)
(* append and edit_text of the Workspace emit their events.                *)
(***************************************************************************)
MaxSubs == 2

\* EventBus.subscribe("command", h): appended, also when h is there already.
Subscribe ==
    /\ Len(subscribers) < MaxSubs
    /\ \E h \in Handlers : subscribers' = Append(subscribers, h)
    /\ UNCHANGED <<editorVars, busVars, sessionVars>>

\* EventBus.unsubscribe("command", h): every subscription of h is dropped.
Unsubscribe ==
    /\ \E h \in Handlers :
          /\ Contains(subscribers, h)
          /\ subscribers' = SelectSeq(subscribers, LAMBDA x : x # h)
    /\ UNCHANGED <<editorVars, busVars, sessionVars>>

NextBus == Subscribe \/ Unsubscribe \/ WAppend \/ WEditText

SpecBus == Init /\ [][NextBus]_vars

(***************************************************************************)
(* The Workspace with its files.  The paths of the model are text files,   *)
(* so load, init and _restore take their TextEditor branch.  An editor of  *)
(* the Workspace is kept with its lines, its modified flag and its logging *)
(* fields; `editors` is the dict in insertion order.  The disk holds the   *)
(* files, the log file of each path and the state file.  The one handler   *)
(* subscribed to "command" is FileLogger._on_command; the events           *)
(* "file_switched" and "file_closed" go to the SessionTimer, which is not  *)
(* part of the model.                                                      *)
(***************************************************************************)
Paths == {"a.txt", "untitled_1.txt"}

\* p.name of the paths init picks for "text": untitled_1.txt, untitled_2.txt
\* and so on; the model has the first.
Untitled == <<"untitled_1.txt">>

MaxCmds == 3

Chars(w) ==
    CASE w = "# log" -> <<"#", " ", "l", "o", "g">>
      [] w = " -e append" -> <<" ", "-", "e", " ", "a", "p", "p", "e", "n", "d">>
      [] w = "hi" -> <<"h", "i">>

\* The contents a file of the disk starts with: none (the file does not
\* exist), text, or a log directive with text after it.
InitialContents ==
    { [exists |-> FALSE, content |-> <<>>],
      [exists |-> TRUE, content |-> Chars("hi")],
      [exists |-> TRUE, content |-> Chars("# log") \o <<NL>> \o Chars("hi")],
      [exists |-> TRUE, content |-> Chars("# log") \o Chars(" -e append") \o <<NL>> \o Chars("hi")] }

\* str.split() of a line: the words between runs of blanks, each a string.
RECURSIVE Words(_, _)
Words(s, word) ==
    IF s = <<>> THEN (IF word = "" THEN <<>> ELSE <<word>>)
    ELSE IF Head(s) = " " \/ Head(s) = NL
         THEN (IF word = "" THEN <<>> ELSE <<word>>) \o Words(Tail(s), "")
         ELSE Words(Tail(s), word \o Head(s))

\* The while loop of _parse_log_config, from index i of parts (1-based).
RECURSIVE ExcludedFrom(_, _)
ExcludedFrom(parts, i) ==
    IF i > Len(parts) THEN <<>>
    ELSE IF parts[i] = "-e" /\ i + 1 <= Len(parts)
         THEN <<parts[i + 1]>> \o ExcludedFrom(parts, i + 2)
         ELSE ExcludedFrom(parts, i + 1)

\* TextEditor._parse_log_config
ParseLogConfig(line) ==
    LET parts == Words(line, "") IN
    IF parts = <<>> \/ parts[1] # "#" \/ Len(parts) < 2 \/ parts[2] # "log"
    THEN [enabled |-> FALSE, excluded |-> <<>>]
    ELSE [enabled |-> TRUE, excluded |-> ExcludedFrom(parts, 3)]

\* An editor of the Workspace.
Doc(ls, mod, logging, excluded) ==
    [lines |-> ls, modified |-> mod, logging_enabled |-> logging,
     excluded_log_commands |-> excluded]

\* TextEditor.from_file on the file f of the disk.
FromFile(f) ==
    LET ls == IF f.exists THEN Split(f.content) ELSE <<>>
        cfg == IF ls # <<>> THEN ParseLogConfig(ls[1])
               ELSE [enabled |-> FALSE, excluded |-> <<>>]
    IN  Doc(ls, ~f.exists, cfg.enabled, cfg.excluded)

\* TextEditor.init_new
InitNew(with_log) ==
    Doc(IF with_log THEN <<Chars("# log")>> ELSE <<>>, TRUE, with_log, <<>>)

\* "\n".join(lines)
RECURSIVE Join(_)
Join(ls) ==
    IF ls = <<>> THEN <<>>
    ELSE IF Len(ls) = 1 THEN ls[1]
    ELSE ls[1] \o <<NL>> \o Join(Tail(ls))

\* The file TextEditor.save writes.
Written(ed) == [exists |-> TRUE, content |-> Join(ed.lines)]

\* The dict `editors`: its keys in order, lookup, assignment and del.
Keys(eds) == [i \in 1..Len(eds) |-> eds[i].path]

IsOpen(eds, p) == \E i \in 1..Len(eds) : eds[i].path = p

EditorOf(eds, p) == eds[CHOOSE i \in 1..Len(eds) : eds[i].path = p].ed

PutEditor(eds, p, ed) ==
    IF IsOpen(eds, p)
    THEN [i \in 1..Len(eds) |-> IF eds[i].path = p THEN [path |-> p, ed |-> ed] ELSE eds[i]]
    ELSE Append(eds, [path |-> p, ed |-> ed])

DelEditor(eds, p) == SelectSeq(eds, LAMBDA e : e.path # p)

\* The Workspace, its FileLogger and the disk, as one value.
Session ==
    [editors |-> editors, active |-> active, logger |-> file_logger, disk |-> disk]

\* FileLogger.set_enabled
SetEnabled(lg, file, enabled, excluded_commands) ==
    IF enabled
    THEN [lg EXCEPT !.enabled_files = DictSet(@, file, excluded_commands)]
    ELSE IF file \in DOMAIN lg.enabled_files
         THEN [lg EXCEPT !.enabled_files = DictDel(@, file)]
         ELSE lg

\* FileLogger.is_enabled
IsEnabled(lg, file) == file \in DOMAIN lg.enabled_files

SessionStart == [command |-> "session start", args |-> ""]

\* FileLogger._ensure_session, on the session w
EnsureSession(w, file) ==
    IF file \in w.logger.session_started THEN w
    ELSE [w EXCEPT !.disk.logs[file] = Append(@, SessionStart),
                   !.logger.session_started = @ \cup {file}]

\* _on_command without the test of the excluded list; C35 fails under it.
OnCommandOfAnyName(w, evt) ==
    IF evt.file = None THEN w
    ELSE IF evt.file \notin DOMAIN w.logger.enabled_files THEN w
    ELSE LET w1 == EnsureSession(w, evt.file) IN
         [w1 EXCEPT !.disk.logs[evt.file] =
                        Append(@, [command |-> evt.command, args |-> evt.args])]

\* FileLogger._on_command; the time stamp of a line is left out.
OnCommand(w, evt) ==
    IF evt.file = None THEN w
    ELSE IF evt.file \notin DOMAIN w.logger.enabled_files THEN w
    ELSE IF Contains(w.logger.enabled_files[evt.file], evt.command) THEN w
    ELSE LET w1 == EnsureSession(w, evt.file) IN
         [w1 EXCEPT !.disk.logs[evt.file] =
                        Append(@, [command |-> evt.command, args |-> evt.args])]

\* Workspace._emit: the file of the event is `file`, or the active file.
SessionEmit(w, command, args, file) ==
    OnCommand(w, [file |-> IF file # None THEN file ELSE w.active,
                  command |-> command, args |-> args])

\* The end of load and init: the editor is registered and made active, the
\* logger is enabled for it when its logging flag is set, the event goes out.
Opened(w, p, ed, command, args) ==
    LET w1 == [w EXCEPT !.editors = PutEditor(@, p, ed), !.active = p]
        w2 == IF ed.logging_enabled
              THEN [w1 EXCEPT !.logger =
                        SetEnabled(@, p, TRUE, ed.excluded_log_commands)]
              ELSE w1
    IN  SessionEmit(w2, command, args, p)

\* Workspace.load
WorkspaceLoad(w, p) == Opened(w, p, FromFile(w.disk.files[p]), "load", p)

\* The end of Workspace.init, with the path p it has made of `name`.
WorkspaceInit(w, name, p, with_log) ==
    Opened(w, p, InitNew(with_log), "init",
           IF with_log THEN name \o " with-log" ELSE name)

\* ed.save() of the editor of p, and the "save" event.
SaveOne(w, p) ==
    LET ed == EditorOf(w.editors, p)
        w1 == [w EXCEPT !.disk.files[p] = Written(ed),
                        !.editors = PutEditor(@, p, [ed EXCEPT !.modified = FALSE])]
    IN  SessionEmit(w1, "save", "", p)

\* The loop of save("all") over the editors from the i-th on.
RECURSIVE SaveFrom(_, _)
SaveFrom(w, i) ==
    IF i > Len(w.editors) THEN w
    ELSE SaveFrom(SaveOne(w, w.editors[i].path), i + 1)

\* close leaving `active` as it is; C39 fails under it.
WorkspaceCloseKeepingActive(w, p, ans) ==
    LET w1 == IF EditorOf(w.editors, p).modified /\ ans = "y" THEN SaveOne(w, p) ELSE w
        w2 == [w1 EXCEPT !.editors = DelEditor(@, p)]
    IN  SessionEmit(w2, "close", "", p)

\* Workspace.close of the open file p, with the answer to its prompt.
WorkspaceClose(w, p, ans) ==
    LET w1 == IF EditorOf(w.editors, p).modified /\ ans = "y" THEN SaveOne(w, p) ELSE w
        w2 == [w1 EXCEPT !.editors = DelEditor(@, p)]
        w3 == IF w2.active = p
              THEN [w2 EXCEPT !.active = IF w2.editors # <<>> THEN w2.editors[1].path
                                         ELSE None]
              ELSE w2
    IN  SessionEmit(w3, "close", "", p)

\* Workspace.log_on and log_off of the open file p
WorkspaceLogOn(w, p) ==
    LET ed == [EditorOf(w.editors, p) EXCEPT !.logging_enabled = TRUE] IN
    [w EXCEPT !.editors = PutEditor(@, p, ed),
              !.logger = SetEnabled(@, p, TRUE, ed.excluded_log_commands)]

WorkspaceLogOff(w, p) ==
    LET ed == [EditorOf(w.editors, p) EXCEPT !.logging_enabled = FALSE] IN
    [w EXCEPT !.editors = PutEditor(@, p, ed),
              !.logger = SetEnabled(@, p, FALSE, <<>>)]

\* f'"{text}"'
Quoted(text) == "\"" \o Str(text) \o "\""

\* Workspace.append on the active editor
WorkspaceAppend(w, text) ==
    LET ed == EditorOf(w.editors, w.active)
        r == AppendText(Ed(ed.lines, <<>>, <<>>, ed.modified), text)
        w1 == [w EXCEPT !.editors = PutEditor(@, w.active,
                   [ed EXCEPT !.lines = r.ed.lines, !.modified = r.ed.modified])]
    IN  IF r.err = OK THEN SessionEmit(w1, "append", Quoted(text), w.active) ELSE w1

\* The exit command: each modified editor is saved when the answer to its
\* prompt is "y", then persist writes the state file.
RECURSIVE ExitFrom(_, _, _)
ExitFrom(w, i, answers) ==
    IF i > Len(w.editors) THEN w
    ELSE LET e == w.editors[i] IN
         ExitFrom(IF e.ed.modified /\ answers[e.path] = "y" THEN SaveOne(w, e.path) ELSE w,
                  i + 1, answers)

\* Workspace._snapshot
Snapshot(w) ==
    [exists |-> TRUE,
     open_files |-> [i \in 1..Len(w.editors) |->
                        [path |-> w.editors[i].path,
                         modified |-> w.editors[i].ed.modified,
                         logging_enabled |-> w.editors[i].ed.logging_enabled]],
     active_file |-> w.active]

\* Workspace.persist
Persisted(w) == [w EXCEPT !.disk.state = Snapshot(w)]

\* The loop of _restore over the open files of the memento m, from the i-th.
RECURSIVE RestoreFrom(_, _, _)
RestoreFrom(w, m, i) ==
    IF i > Len(m.open_files) THEN w
    ELSE LET es == m.open_files[i]
             ed0 == FromFile(w.disk.files[es.path])
             ed == [ed0 EXCEPT !.modified = es.modified,
                               !.logging_enabled = es.logging_enabled \/ @]
             w1 == IF ed.logging_enabled
                   THEN [w EXCEPT !.logger =
                             SetEnabled(@, es.path, TRUE, ed.excluded_log_commands)]
                   ELSE w
         IN  RestoreFrom([w1 EXCEPT !.editors = PutEditor(@, es.path, ed)], m, i + 1)

NoLogger == [enabled_files |-> <<>>, session_started |-> {}]

\* Workspace.create on the disk d: a new FileLogger, no editor, then _restore.
Created(d) ==
    LET w == [editors |-> <<>>, active |-> None, logger |-> NoLogger, disk |-> d]
        m == d.state
    IN  IF ~m.exists THEN w
        ELSE LET w1 == RestoreFrom(w, m, 1) IN
             IF m.active_file # None /\ IsOpen(w1.editors, m.active_file)
             THEN [w1 EXCEPT !.active = m.active_file]
             ELSE w1

\* A command of the user, the file it names, and the file that is active
\* when it is given.
Command(name, file) == [name |-> name, file |-> file, was_active |-> active]

NoCommand == [name |-> "none", file |-> None, was_active |-> None]

\* Commands are explored while fewer than MaxCmds of them have been given.
CanCommand == ncmds < MaxCmds

\* The step of a command that leaves the session as w.
SessionStep(w, c) ==
    /\ editors' = w.editors
    /\ active' = w.active
    /\ file_logger' = w.logger
    /\ disk' = w.disk
    /\ ncmds' = ncmds + 1
    /\ last_cmd' = c
    /\ UNCHANGED <<log_mark, editorVars, busVars, subscribers>>

\* load <file>
SLoad ==
    /\ CanCommand
    /\ \E p \in Paths : SessionStep(WorkspaceLoad(Session, p), Command("load", p))

\* init <file> [with-log] and init text [with-log]: "text" names the first
\* untitled path that is neither on the disk nor open.
SInit ==
    /\ CanCommand
    /\ \E name \in Paths \cup {"text"}, with_log \in BOOLEAN :
          LET free == {i \in 1..Len(Untitled) :
                          /\ ~disk.files[Untitled[i]].exists
                          /\ ~IsOpen(editors, Untitled[i])}
              p == IF name # "text" THEN name
                   ELSE Untitled[CHOOSE i \in free : \A j \in free : i <= j]
          IN  /\ name = "text" => free # {}
              /\ SessionStep(WorkspaceInit(Session, name, p, with_log),
                             Command("init", p))

\* save and save <file> (save alone names the active file), save all
SSave ==
    /\ CanCommand
    /\ \/ \E p \in Paths :
             /\ IsOpen(editors, p)
             /\ SessionStep(SaveOne(Session, p), Command("save", p))
       \/ SessionStep(SaveFrom(Session, 1), Command("save all", None))

\* close and close <file> (close alone names the active file), with the
\* user's answer to the prompt
SClose ==
    /\ CanCommand
    /\ \E ans \in {"y", "n"}, p \in Paths :
          /\ IsOpen(editors, p)
          /\ SessionStep(WorkspaceClose(Session, p, ans), Command("close", p))

\* edit <file>
SEditActive ==
    /\ CanCommand
    /\ \E p \in Paths :
          /\ IsOpen(editors, p)
          /\ SessionStep([Session EXCEPT !.active = p], Command("edit", p))

\* log-on and log-on <file> (log-on alone names the active file)
SLogOn ==
    /\ CanCommand
    /\ \E p \in Paths :
          /\ IsOpen(editors, p)
          /\ SessionStep(WorkspaceLogOn(Session, p), Command("log-on", p))

\* log-off and log-off <file> (log-off alone names the active file)
SLogOff ==
    /\ CanCommand
    /\ \E p \in Paths :
          /\ IsOpen(editors, p)
          /\ SessionStep(WorkspaceLogOff(Session, p), Command("log-off", p))

\* append "text"
SAppend ==
    /\ CanCommand
    /\ active # None
    /\ SessionStep(WorkspaceAppend(Session, <<"x">>), Command("append", active))

\* exit, and the next run of the program: Workspace.create restores the
\* session from the state file.
SRestart ==
    /\ CanCommand
    /\ \E answers \in [Paths -> {"y", "n"}] :
          LET w == Created(Persisted(ExitFrom(Session, 1, answers)).disk) IN
          /\ editors' = w.editors
          /\ active' = w.active
          /\ file_logger' = w.logger
          /\ disk' = w.disk
          /\ ncmds' = ncmds + 1
          /\ last_cmd' = Command("restart", None)
          /\ log_mark' = [p \in Paths |-> Len(w.disk.logs[p])]
          /\ UNCHANGED <<editorVars, busVars, subscribers>>

\* The first run of the program in a directory without a state file.
InitSession ==
    /\ disk \in [files : [Paths -> InitialContents],
                 logs : {[p \in Paths |-> <<>>]},
                 state : {[exists |-> FALSE, open_files |-> <<>>, active_file |-> None]}]
    /\ editors = <<>>
    /\ active = None
    /\ file_logger = NoLogger
    /\ log_mark = [p \in Paths |-> 0]
    /\ ncmds = 0
    /\ last_cmd = NoCommand
    /\ kind = "none"
    /\ lines = <<>>
    /\ undo_stack = <<>>
    /\ redo_stack = <<>>
    /\ modified = FALSE
    /\ elems = <<>>
    /\ id_map = <<>>
    /\ parent_map = <<>>
    /\ nops = 0
    /\ nur = 0
    /\ last = NoCall
    /\ NoBus

NextSession ==
    \/ SLoad \/ SInit \/ SSave \/ SClose \/ SEditActive \/ SLogOn \/ SLogOff
    \/ SAppend \/ SRestart

SpecSession == InitSession /\ [][NextSession]_vars

(***************************************************************************)
(* Properties of the editors.  `last` holds the latest call that returned  *)
(* normally or changed a field, so a state whose `last` is a forward       *)
(* operation with err = OK is the state right after that operation.        *)
(***************************************************************************)
AfterTextEdit ==
    kind = "text" /\ last.err = OK /\ last.op \in {"insert", "delete", "replace"}

\* C1 (text undo round-trip): right after an insert, delete or replace that
\* passed validation on a document with line sequence D (the empty document
\* included), one undo() returns True and leaves the line sequence equal to D.
C1_TextUndoRoundTrip ==
    AfterTextEdit =>
        LET u == Undo(CurEd) IN u.err = OK /\ u.ed.lines = last.pre.lines

\* C2 (text redo round-trip): right after a valid insert, delete or replace,
\* single-line or multi-line, undo() followed by redo() leaves the line
\* sequence equal to the one right after the operation.
C2_TextRedoRoundTrip ==
    AfterTextEdit =>
        LET u == Undo(CurEd)
            r == Redo(u.ed)
        IN  u.err = OK /\ r.err = OK /\ r.ed.lines = lines

\* The outcome of every tree operation a caller may issue on xs.
XmlCalls(xs) ==
    {InsertBefore(xs, tag, new_id, id, text) :
        tag \in TagInputs, new_id \in IdInputs, id \in IdInputs, text \in XmlTextInputs}
    \cup {AppendChild(xs, tag, new_id, id, text) :
        tag \in TagInputs, new_id \in IdInputs, id \in IdInputs, text \in XmlTextInputs}
    \cup {EditId(xs, old_id, new_id) : old_id \in IdInputs, new_id \in IdInputs}
    \cup {EditText(xs, id, text) : id \in IdInputs, text \in XmlTextInputs}
    \cup {XDelete(xs, id) : id \in IdInputs}

\* a holds the elements of b unchanged (tag, id attribute, children in
\* order, text) and the same id_map and parent_map, element for element.
SameDocument(a, b) ==
    /\ Len(a.elems) >= Len(b.elems)
    /\ SubSeq(a.elems, 1, Len(b.elems)) = b.elems
    /\ a.id_map = b.id_map
    /\ a.parent_map = b.parent_map

\* C3 (tree undo round-trip): in every reachable XmlEditor state, for every
\* insert_before, append_child, edit_id, edit_text or delete call that passes
\* validation, the call followed by one undo() leaves the tree, id_map and
\* parent_map exactly as they were before the call.
C3_TreeUndoRoundTrip ==
    kind = "xml" =>
        \A r \in XmlCalls(CurXs) :
            r.err \notin XmlValidationErrors => SameDocument(XUndo(r.xs).xs, CurXs)

\* The round trip of C3 for the calls that return normally: right after a
\* tree operation, one undo() returns True and restores the tree and both
\* indexes.  The calls C3 fails on are those that pass validation and raise.
TreeUndoRoundTripOfCompletedCalls ==
    (kind = "xml" /\ last.err = OK /\ last.op \in XForwardOps) =>
        LET u == XUndo(CurXs) IN u.err = OK /\ SameDocument(u.xs, last.pre)

\* The tree below element h, without the identity of its elements.
RECURSIVE Tree(_, _)
RECURSIVE Trees(_, _)
Tree(es, h) ==
    [tag |-> es[h].tag, id |-> es[h].id, text |-> es[h].text,
     children |-> Trees(es, es[h].children)]
Trees(es, hs) ==
    IF hs = <<>> THEN <<>> ELSE <<Tree(es, Head(hs))>> \o Trees(es, Tail(hs))

\* The structure of a document: the tree of the root, the element each key
\* of id_map names, and the parent relation.
Structure(xs) ==
    [tree |-> Tree(xs.elems, RootHandle),
     ids |-> [k \in DOMAIN xs.id_map |-> Tree(xs.elems, xs.id_map[k])],
     parents |-> {<<Tree(xs.elems, c), Tree(xs.elems, xs.parent_map[c])>> :
                     c \in DOMAIN xs.parent_map}]

\* n calls of undo(), and n calls of redo(), stopping at the first that does
\* not return True.
RECURSIVE UndoTimes(_, _)
UndoTimes(xs, n) ==
    IF n = 0 THEN XResult(OK, xs)
    ELSE LET u == XUndo(xs) IN IF u.err # OK THEN u ELSE UndoTimes(u.xs, n - 1)

RECURSIVE RedoTimes(_, _)
RedoTimes(xs, n) ==
    IF n = 0 THEN XResult(OK, xs)
    ELSE LET r == XRedo(xs) IN IF r.err # OK THEN r ELSE RedoTimes(r.xs, n - 1)

\* C4 (tree redo round-trip): in every reachable XmlEditor state, undoing the
\* latest n commands (n = 1, or several) and redoing them in order yields a
\* tree and indexes structurally equal to the state before the undos, with
\* the same history depths; in particular operation; undo(); redo() yields
\* the state right after the operation.
C4_TreeRedoRoundTrip ==
    kind = "xml" =>
        \A n \in 1..Len(undo_stack) :
            LET u == UndoTimes(CurXs, n)
                r == RedoTimes(u.xs, n)
            IN  /\ u.err = OK
                /\ r.err = OK
                /\ Structure(r.xs) = Structure(CurXs)
                /\ Len(r.xs.undo) = Len(undo_stack)
                /\ Len(r.xs.redo) = Len(redo_stack)

\* Two commands were applied, the later one on the element the earlier one
\* created, and both can be undone and redone.
C4_Witness ==
    /\ kind = "xml"
    /\ last.err = OK
    /\ last.op \in {"delete", "edit_id", "insert_before"}
    /\ Len(undo_stack) = 2
    /\ undo_stack[1].type \in {"XmlInsertBeforeCommand", "XmlAppendChildCommand"}
    /\ last.args.id = undo_stack[1].a
    /\ Structure(RedoTimes(UndoTimes(CurXs, 2).xs, 2).xs) = Structure(CurXs)
    /\ Len(RedoTimes(UndoTimes(CurXs, 2).xs, 2).xs.elems) > Len(elems)

\* A forward operation of either editor has just returned normally.
AfterForwardOp ==
    /\ last.err = OK
    /\ \/ kind = "text" /\ last.op \in ForwardOps
       \/ kind = "xml" /\ last.op \in XForwardOps

\* C5 (redo invalidation): right after a successful forward operation of
\* either editor the redo stack is empty, and redo() returns False and
\* changes nothing; this covers the operation issued after an undo().
C5_RedoInvalidation ==
    AfterForwardOp =>
        /\ redo_stack = <<>>
        /\ kind = "text" => Redo(CurEd) = Out(NothingToDo, CurEd)
        /\ kind = "xml" => XRedo(CurXs) = XResult(NothingToDo, CurXs)

\* A forward operation was applied while an undone command was waiting on
\* the redo stack.
C5_Witness ==
    /\ AfterForwardOp
    /\ last.pre.redo # <<>>
    /\ redo_stack = <<>>

\* The outcome of every insert, delete and replace a caller may issue in the
\* current state.
TextCalls ==
    {Insert(CurEd, line, col, text) :
        line \in LineArgs, col \in ColArgs, text \in TextInputs}
    \cup UNION {{Delete(CurEd, line, col, length) : line \in LineArgs, col \in ColArgs} :
                  length \in LengthInputs}
    \cup UNION {{Replace(CurEd, line, col, length, text) :
                    line \in LineArgs, col \in ColArgs, text \in TextInputs} :
                  length \in LengthInputs}

\* C6 (text atomicity on failure): in every state in which the TextEditor
\* is called (CanEdit), an insert, delete or replace that raises a
\* validation error leaves the line sequence, the undo stack, the redo stack
\* and the modified flag as they were before the call.
C6_TextAtomicity ==
    CanEdit =>
        \A r \in TextCalls : r.err \in ValidationErrors => r.ed = CurEd

\* A state with commands on both stacks in which calls fail with each of the
\* three validation errors.
C6_Witness ==
    /\ CanEdit
    /\ undo_stack # <<>>
    /\ redo_stack # <<>>
    /\ \E r \in TextCalls : r.err = PositionOutOfBounds /\ r.ed = CurEd
    /\ \E r \in TextCalls : r.err = LengthExceedsLine /\ r.ed = CurEd
    /\ \E r \in TextCalls : r.err = EmptyDocumentInvalidPosition /\ r.ed = CurEd

\* C7 (tree atomicity on failure): in every state in which the XmlEditor is
\* called (XCanEdit), a tree operation that raises a validation error
\* (duplicate id, unknown id, root protected) leaves the tree, id_map,
\* parent_map, both history stacks and the modified flag unchanged.
C7_TreeAtomicity ==
    XCanEdit =>
        \A r \in XmlCalls(CurXs) : r.err \in XmlValidationErrors => r.xs = CurXs

\* A modified document with an undone command waiting on the redo stack, in
\* which calls fail with each of the three validation errors.
C7_Witness ==
    /\ XCanEdit
    /\ modified
    /\ redo_stack # <<>>
    /\ \E r \in XmlCalls(CurXs) : r.err = DuplicateId /\ r.xs = CurXs
    /\ \E r \in XmlCalls(CurXs) : r.err = UnknownId /\ r.xs = CurXs
    /\ \E r \in XmlCalls(CurXs) : r.err = RootElementProtected /\ r.xs = CurXs

\* C8 (one operation, one history entry): every successful public mutating
\* call of either editor leaves the undo stack exactly one entry deeper than
\* it was before the call.
C8_OneHistoryEntry ==
    AfterForwardOp => Len(undo_stack) = Len(last.pre.undo) + 1

\* The document a multi-line insert works on: an empty document is given
\* its first, empty line before the position is resolved.
InsertBase == IF last.pre.lines = <<>> THEN << <<>> >> ELSE last.pre.lines

AfterMultiLineInsert ==
    kind = "text" /\ last.err = OK /\ last.op = "insert" /\ HasNL(last.args.text)

\* The result C9 describes, for segments s0..sk of the text.
ExpectedInsert(base, line, col, s) ==
    LET target == base[line]
        prefix == SubSeq(target, 1, col - 1)
        suffix == SubSeq(target, col, Len(target))
        k == Len(s) - 1
    IN  SubSeq(base, 1, line - 1)
        \o << prefix \o s[1] >>
        \o SubSeq(s, 2, k)
        \o << s[k + 1] \o suffix >>
        \o SubSeq(base, line + 1, Len(base))

\* C9 (multi-line insert result): after insert at a valid (line, col) of a
\* text with k >= 1 newlines and segments s0..sk, the target line is
\* prefix+s0, followed by s1..s(k-1), then sk+suffix; the other lines keep
\* content and order; the line count has grown by exactly k.
C9_MultiLineInsertResult ==
    AfterMultiLineInsert =>
        LET s == Split(last.args.text) IN
        /\ lines = ExpectedInsert(InsertBase, last.args.line, last.args.col, s)
        /\ Len(lines) = Len(InsertBase) + Len(s) - 1

\* C10 (multi-line insert undo removes only what was inserted): the count
\* the composite command records equals the number of lines the insert
\* added, and undo() restores the target line and leaves every line that
\* existed before the insert in place.
C10_MultiLineInsertUndo ==
    AfterMultiLineInsert =>
        LET cmd == undo_stack[Len(undo_stack)]
            u == Undo(CurEd)
        IN  /\ cmd.type = "_CompositeLineChange"
            /\ cmd.prev_after_lines_count = Len(lines) - Len(InsertBase)
            /\ u.err = OK
            /\ u.ed.lines = InsertBase

AfterMultiLineReplace ==
    kind = "text" /\ last.err = OK /\ last.op = "replace" /\ HasNL(last.args.text)

\* C11 (multi-line replace undo): right after a valid replace whose text
\* contains a newline, applied to a document with line sequence D, a single
\* undo() returns True and leaves the line sequence equal to D, line count
\* included.
C11_MultiLineReplaceUndo ==
    AfterMultiLineReplace =>
        LET u == Undo(CurEd) IN u.err = OK /\ u.ed.lines = last.pre.lines

\* A multi-line replace that removed characters and added lines, and whose
\* undo gives the former lines back.
C11_Witness ==
    /\ AfterMultiLineReplace
    /\ last.args.length > 0
    /\ Len(lines) > Len(last.pre.lines)
    /\ undo_stack[Len(undo_stack)].type = "_CompositeReplaceChange"
    /\ Undo(CurEd).ed.lines = last.pre.lines
    /\ Undo(CurEd).ed.lines # lines

\* Texts without a newline, the empty text among them.
PlainTexts == { <<>>, <<"x">>, <<"x", "y">> }

\* C12 (append result): in every state in which the TextEditor is called
\* (CanEdit), with n >= 0 lines, and for every text without a newline,
\* append(text) returns normally and leaves n + 1 lines: the n lines as they
\* were, followed by text.
C12_AppendResult ==
    CanEdit =>
        \A t \in PlainTexts :
            LET r == AppendText(CurEd, t) IN
            r.err = OK /\ r.ed.lines = Append(lines, t)

\* An append of a text without newline was applied to a document that had
\* lines and a history, and to a document without any line.
C12_Witness ==
    /\ kind = "text"
    /\ last.err = OK
    /\ last.op = "append"
    /\ ~HasNL(last.args.text)
    /\ last.pre.undo # <<>>
    /\ last.pre.lines # <<>>
    /\ lines = Append(last.pre.lines, last.args.text)
    /\ AppendText(NoEd, <<"x">>).ed.lines = << <<"x">> >>

AfterPlainAppend ==
    kind = "text" /\ last.err = OK /\ last.op = "append" /\ ~HasNL(last.args.text)

\* C13 (append is fully undoable): right after append(text) on a document
\* with line sequence D, undo() returns True and leaves the line sequence
\* equal to D, and a following redo() brings the appended line back.
C13_AppendUndoable ==
    AfterPlainAppend =>
        LET u == Undo(CurEd)
            r == Redo(u.ed)
        IN  /\ u.err = OK
            /\ u.ed.lines = last.pre.lines
            /\ r.err = OK
            /\ r.ed.lines = lines

\* The lengths tried for delete: those of LengthInputs and 0.
DeleteLengths == LengthInputs \cup {0}

\* A position the document ls has: 1 <= line <= len(ls) and
\* 1 <= col <= len(ls[line]) + 1.
ValidPosition(ls, line, col) ==
    line \in 1..Len(ls) /\ col \in 1..(Len(ls[line]) + 1)

\* line[:col-1] + line[col-1+length:], the two slices as Python takes them.
AfterDelete(target, col, length) ==
    PyUpTo(target, col - 1) \o PyFrom(target, col - 1 + length)

\* C14 (delete semantics): in every state in which the TextEditor is called
\* (CanEdit), delete at a valid position of a non-empty document succeeds
\* exactly when length is at most the number of characters from col to the
\* end of the line; then the target line is line[:col-1] + line[col-1+length:]
\* (for a length >= 0: the line without the length characters from col on)
\* and every other line and the line count are as before.  When length is
\* larger, and when the document has no line, delete raises and the lines
\* are unchanged.
C14_DeleteSemantics ==
    CanEdit =>
        \A line \in LineArgs, col \in ColArgs, length \in DeleteLengths :
            LET r == Delete(CurEd, line, col, length) IN
            /\ lines = <<>> => r.err \in ValidationErrors /\ r.ed.lines = lines
            /\ ValidPosition(lines, line, col) =>
                  LET target == lines[line]
                      remaining == Len(target) - (col - 1)
                  IN  IF length <= remaining
                      THEN /\ r.err = OK
                           /\ r.ed.lines = [lines EXCEPT ![line] = AfterDelete(target, col, length)]
                           /\ length >= 0 =>
                                 r.ed.lines[line] = SubSeq(target, 1, col - 1)
                                                    \o SubSeq(target, col + length, Len(target))
                      ELSE r.err = LengthExceedsLine /\ r.ed.lines = lines

\* A delete removed characters from the middle of a line of a document with
\* several lines; a longer delete at the same place is refused, and so is a
\* delete on the document without lines.
C14_Witness ==
    /\ kind = "text"
    /\ last.err = OK
    /\ last.op = "delete"
    /\ last.args.length > 0
    /\ last.args.col > 1
    /\ Len(last.pre.lines) > 1
    /\ Len(lines) = Len(last.pre.lines)
    /\ Len(lines[last.args.line]) = Len(last.pre.lines[last.args.line]) - last.args.length
    /\ Delete(last.pre, last.args.line, last.args.col, last.args.length + 2).err
          = LengthExceedsLine
    /\ Delete(NoEd, 1, 1, 1).err \in ValidationErrors

\* C15 (empty-document seeding): on a document with zero lines, insert at
\* (1, 1) returns normally and the first line holds the text (its first
\* segment, when the text has newlines; a text without newline gives the
\* one-line document [text]); insert at any other position raises the
\* empty-document-position error and the document still has zero lines.
C15_EmptyDocumentSeeding ==
    (kind = "text" /\ lines = <<>>) =>
        \A line \in LineArgs, col \in ColArgs, text \in TextInputs \cup PlainTexts :
            LET r == Insert(CurEd, line, col, text) IN
            IF line = 1 /\ col = 1
            THEN /\ r.err = OK
                 /\ Len(r.ed.lines) >= 1
                 /\ r.ed.lines[1] = Split(text)[1]
                 /\ ~HasNL(text) => r.ed.lines = <<text>>
            ELSE r.err = EmptyDocumentInvalidPosition /\ r.ed = CurEd

\* The first line of a document was created by an insert at (1, 1), where
\* an insert at (1, 2) and one at (2, 1) are refused.
C15_Witness ==
    /\ kind = "text"
    /\ last.err = OK
    /\ last.op = "insert"
    /\ last.pre.lines = <<>>
    /\ last.args.line = 1
    /\ last.args.col = 1
    /\ lines = <<last.args.text>>
    /\ Insert(last.pre, 1, 2, last.args.text) = Out(EmptyDocumentInvalidPosition, last.pre)
    /\ Insert(last.pre, 2, 1, last.args.text) = Out(EmptyDocumentInvalidPosition, last.pre)

\* A position the document ls does not have.
InvalidPosition(ls, line, col) == ~ValidPosition(ls, line, col)

\* The errors insert, delete and replace raise for the position (line, col).
PositionErrors(line, col) ==
    {Insert(CurEd, line, col, text).err : text \in TextInputs}
    \cup {Delete(CurEd, line, col, length).err : length \in LengthInputs}
    \cup UNION {{Replace(CurEd, line, col, length, text).err : text \in TextInputs} :
                  length \in LengthInputs}

\* C16 (error kind of a bad position): the empty-document-position error is
\* raised only on a document with zero lines; on a document with lines,
\* insert, delete and replace report every invalid position (line < 1,
\* line > line count, col < 1, col > len(line) + 1) as position out of
\* bounds.
C16_BadPositionErrorKind ==
    (CanEdit /\ lines # <<>>) =>
        \A line \in LineArgs, col \in ColArgs :
            /\ EmptyDocumentInvalidPosition \notin PositionErrors(line, col)
            /\ InvalidPosition(lines, line, col) =>
                  PositionErrors(line, col) = {PositionOutOfBounds}

\* The claim of C16 for the positions with line >= 1: they are reported
\* as C16 says.  The positions C16 fails on are those with line < 1.
BadPositionErrorKindFromLineOne ==
    (CanEdit /\ lines # <<>>) =>
        \A line \in LineArgs \ {0}, col \in ColArgs :
            /\ EmptyDocumentInvalidPosition \notin PositionErrors(line, col)
            /\ InvalidPosition(lines, line, col) =>
                  PositionErrors(line, col) = {PositionOutOfBounds}

\* undo() found a command and applied it: it returned True and moved the
\* command to the redo stack.
TextUndoApplies ==
    LET u == Undo(CurEd) IN
    /\ u.err = OK
    /\ Len(u.ed.undo) = Len(undo_stack) - 1
    /\ Len(u.ed.redo) = Len(redo_stack) + 1

TextRedoApplies ==
    LET r == Redo(CurEd) IN
    /\ r.err = OK
    /\ Len(r.ed.redo) = Len(redo_stack) - 1
    /\ Len(r.ed.undo) = Len(undo_stack) + 1

TreeUndoApplies ==
    LET u == XUndo(CurXs) IN
    /\ u.err = OK
    /\ Len(u.xs.undo) = Len(undo_stack) - 1
    /\ Len(u.xs.redo) = Len(redo_stack) + 1

TreeRedoApplies ==
    LET r == XRedo(CurXs) IN
    /\ r.err = OK
    /\ Len(r.xs.redo) = Len(redo_stack) - 1
    /\ Len(r.xs.undo) = Len(undo_stack) + 1

\* C17 (command application never fails in undo/redo): in every reachable
\* state of a TextEditor or XmlEditor, undo() with a non-empty undo stack and
\* redo() with a non-empty redo stack return True without raising and move
\* exactly one command from one stack to the other.
C17_UndoRedoNeverFail ==
    /\ (kind = "text" /\ undo_stack # <<>>) => TextUndoApplies
    /\ (kind = "text" /\ redo_stack # <<>>) => TextRedoApplies
    /\ (kind = "xml" /\ undo_stack # <<>>) => TreeUndoApplies
    /\ (kind = "xml" /\ redo_stack # <<>>) => TreeRedoApplies

\* The part of C17 that holds: undo() and redo() of an XmlEditor.
TreeUndoRedoNeverFail ==
    /\ (kind = "xml" /\ undo_stack # <<>>) => TreeUndoApplies
    /\ (kind = "xml" /\ redo_stack # <<>>) => TreeRedoApplies

\* C18 (no embedded newline): after any sequence of insert, delete, replace,
\* append, undo and redo calls, with texts that may contain newlines, on a
\* document whose initial lines contain no newline, no element of lines
\* contains a newline character.
C18_NoEmbeddedNewline ==
    kind = "text" => \A i \in 1..Len(lines) : ~HasNL(lines[i])

\* Two operations were applied, the later one a replace by a text with
\* newlines, which was then undone.
C18_Witness ==
    /\ kind = "text"
    /\ nops = 2
    /\ last.op = "undo"
    /\ last.err = OK
    /\ redo_stack # <<>>
    /\ redo_stack[Len(redo_stack)].type = "_CompositeReplaceChange"
    /\ Len(lines) >= 2
    /\ \A i \in 1..Len(lines) : ~HasNL(lines[i])

\* The elements reachable from the root.
Reachable == {PreOrder(elems, RootHandle)[i] : i \in 1..Len(PreOrder(elems, RootHandle))}

NoRepeat(s) == \A i, j \in 1..Len(s) : i # j => s[i] # s[j]

\* C19 (tree index consistency): after any sequence of tree operations, undo
\* and redo, every element reachable from the root is the value of id_map at
\* its own id attribute; every reachable element but the root has a
\* parent_map entry, which is its actual parent; the root has no parent_map
\* entry; no two reachable elements share an id; no element occurs twice in
\* a child sequence.
C19_TreeIndexConsistency ==
    kind = "xml" =>
        LET order == PreOrder(elems, RootHandle)
            reach == {order[i] : i \in 1..Len(order)}
        IN  /\ \A h \in reach :
                  elems[h].id \in DOMAIN id_map /\ id_map[elems[h].id] = h
            /\ \A h \in reach \ {RootHandle} :
                  /\ h \in DOMAIN parent_map
                  /\ parent_map[h] \in reach
                  /\ Contains(elems[parent_map[h]].children, h)
            /\ RootHandle \notin DOMAIN parent_map
            /\ \A g, h \in reach : g # h => elems[g].id # elems[h].id
            /\ \A h \in reach : NoRepeat(elems[h].children)
            /\ NoRepeat(order)

\* A new document with the default root: an element was appended and
\* deleted, and the delete was undone; the element is reachable and indexed
\* again.
C19_Witness ==
    /\ kind = "xml"
    /\ Len(elems) = 2
    /\ last.op = "undo"
    /\ last.err = OK
    /\ redo_stack # <<>>
    /\ redo_stack[Len(redo_stack)].type = "XmlDeleteCommand"
    /\ Reachable = {1, 2}
    /\ id_map[elems[2].id] = 2
    /\ parent_map[2] = RootHandle

\* The id the root element has at creation (init_new, and the parsed
\* document).
RootId == "root"

AfterTreeDelete == kind = "xml" /\ last.err = OK /\ last.op = "delete"

\* The element a completed call named by its id argument, in the state
\* before the call.
NamedElement == last.pre.id_map[last.args.id]

\* The elements of s as a set.
Range(s) == {s[i] : i \in 1..Len(s)}

\* C21 (subtree delete undo): right after delete(e.id) of a non-root element
\* e with any number of descendants, undo() returns True and puts e back at
\* the sibling index it had, and id_map and parent_map hold the entries they
\* had for e and for every descendant of e.
C21_SubtreeDeleteUndo ==
    AfterTreeDelete =>
        LET e == NamedElement
            p == last.pre.parent_map[e]
            subtree == Range(PreOrder(last.pre.elems, e))
            u == XUndo(CurXs)
        IN  /\ u.err = OK
            /\ u.xs.elems[p].children = last.pre.elems[p].children
            /\ IndexOf(u.xs.elems[p].children, e) = IndexOf(last.pre.elems[p].children, e)
            /\ \A h \in subtree :
                  /\ u.xs.elems[h] = last.pre.elems[h]
                  /\ h \in DOMAIN u.xs.parent_map
                  /\ u.xs.parent_map[h] = last.pre.parent_map[h]
                  /\ u.xs.elems[h].id \in DOMAIN u.xs.id_map
                  /\ u.xs.id_map[u.xs.elems[h].id] = h

\* An element with a descendant and with an elder sibling was deleted, and
\* the undo puts it back behind that sibling with the descendant indexed.
C21_Witness ==
    /\ AfterTreeDelete
    /\ Len(PreOrder(last.pre.elems, NamedElement)) >= 2
    /\ IndexOf(last.pre.elems[last.pre.parent_map[NamedElement]].children, NamedElement) >= 1
    /\ NamedElement \notin DOMAIN parent_map
    /\ XUndo(CurXs).err = OK
    /\ \A h \in Range(PreOrder(last.pre.elems, NamedElement)) :
          h \in DOMAIN XUndo(CurXs).xs.parent_map

\* C22 (subtree delete purge): right after a successful delete(id), the
\* element and all its descendants are unreachable from the root, none of
\* their ids is a key of id_map, none of them is a key of parent_map, and
\* the remaining siblings keep their relative order.
C22_SubtreeDeletePurge ==
    AfterTreeDelete =>
        LET e == NamedElement
            p == last.pre.parent_map[e]
            subtree == Range(PreOrder(last.pre.elems, e))
            reach == Range(PreOrder(elems, RootHandle))
        IN  /\ subtree \cap reach = {}
            /\ \A h \in subtree : last.pre.elems[h].id \notin DOMAIN id_map
            /\ subtree \cap DOMAIN parent_map = {}
            /\ elems[p].children = ListRemove(last.pre.elems[p].children, e)

\* The part of C22 that holds: the subtree is unreachable and out of
\* parent_map, the siblings keep their order, and every non-empty id of the
\* subtree is out of id_map.  C22 fails on the elements whose id is the
\* empty string.
SubtreeDeletePurgeOfNonEmptyIds ==
    AfterTreeDelete =>
        LET e == NamedElement
            p == last.pre.parent_map[e]
            subtree == Range(PreOrder(last.pre.elems, e))
            reach == Range(PreOrder(elems, RootHandle))
        IN  /\ subtree \cap reach = {}
            /\ \A h \in subtree :
                  last.pre.elems[h].id # "" => last.pre.elems[h].id \notin DOMAIN id_map
            /\ subtree \cap DOMAIN parent_map = {}
            /\ elems[p].children = ListRemove(last.pre.elems[p].children, e)

\* The ids of the elements in the tree of xs.
TreeIds(xs) == {xs.elems[h].id : h \in Range(PreOrder(xs.elems, RootHandle))}

\* insert_before and append_child refuse an id that is in the tree, and
\* edit_id refuses to rename to one.
DuplicateIdsRejected ==
    kind = "xml" =>
        \A tag \in TagInputs, new_id \in TreeIds(CurXs), id \in IdInputs, text \in XmlTextInputs :
            /\ InsertBefore(CurXs, tag, new_id, id, text) = XResult(DuplicateId, CurXs)
            /\ AppendChild(CurXs, tag, new_id, id, text) = XResult(DuplicateId, CurXs)
            /\ EditId(CurXs, id, new_id).err \in {UnknownId, DuplicateId}

\* insert_before, append_child and edit_id refuse a target, parent or old id
\* that is not in the tree.
UnknownIdsRejected ==
    kind = "xml" =>
        \A tag \in TagInputs, new_id \in IdInputs, id \in IdInputs \ TreeIds(CurXs),
           text \in XmlTextInputs :
            /\ new_id \notin TreeIds(CurXs) =>
                  /\ InsertBefore(CurXs, tag, new_id, id, text) = XResult(UnknownId, CurXs)
                  /\ AppendChild(CurXs, tag, new_id, id, text) = XResult(UnknownId, CurXs)
            /\ EditId(CurXs, id, new_id) = XResult(UnknownId, CurXs)

\* C23 (duplicate and unknown identifiers are rejected): insert_before and
\* append_child raise the duplicate-id error whenever newId is the id of an
\* element in the tree, and the unknown-id error whenever the target or
\* parent id is not in the tree (and newId is new); edit_id fails when oldId
\* is unknown or newId exists.
C23_DuplicateAndUnknownIds ==
    DuplicateIdsRejected /\ UnknownIdsRejected

\* The element a completed insert_before or append_child created.
CreatedElement == id_map[last.args.new_id]

\* The created element is new, carries the tag, id and text of the call and
\* has no child, and both indexes hold it, with parent p.
Registered(h, p) ==
    /\ h \notin 1..Len(last.pre.elems)
    /\ elems[h] = Element(last.args.tag, last.args.new_id,
                          IF last.args.text # "" THEN last.args.text ELSE None, <<>>)
    /\ last.args.new_id \in DOMAIN id_map
    /\ id_map[last.args.new_id] = h
    /\ h \in DOMAIN parent_map
    /\ parent_map[h] = p

\* C24 (insert_before placement): right after a successful
\* insert_before(tag, newId, targetId, text) the new element is a child of
\* the target's parent, immediately before the target; the siblings that
\* were there keep their order; the new element is registered in id_map and
\* parent_map.
C24_InsertBeforePlacement ==
    (kind = "xml" /\ last.err = OK /\ last.op = "insert_before") =>
        LET target == NamedElement
            p == last.pre.parent_map[target]
            kids == elems[p].children
            h == CreatedElement
        IN  /\ Registered(h, p)
            /\ Contains(kids, h)
            /\ IndexOf(kids, h) + 1 = IndexOf(kids, target)
            /\ ListRemove(kids, h) = last.pre.elems[p].children
            /\ parent_map[target] = p

\* An element with a text was inserted before a target whose parent is not
\* the root.
C24_Witness ==
    /\ kind = "xml"
    /\ last.err = OK
    /\ last.op = "insert_before"
    /\ last.args.text # ""
    /\ last.pre.parent_map[NamedElement] # RootHandle
    /\ elems[parent_map[NamedElement]].children = <<CreatedElement, NamedElement>>

\* C25 (append_child placement): right after a successful
\* append_child(tag, newId, parentId, text) the new element is the last
\* child of the element with id parentId, the earlier children keep their
\* order, and the new element is registered in id_map and parent_map with
\* that parent.
C25_AppendChildPlacement ==
    (kind = "xml" /\ last.err = OK /\ last.op = "append_child") =>
        LET p == NamedElement
            h == CreatedElement
        IN  /\ Registered(h, p)
            /\ id_map[last.args.id] = p
            /\ elems[p].children = Append(last.pre.elems[p].children, h)

\* An element was appended to a parent other than the root that had a child.
C25_Witness ==
    /\ kind = "xml"
    /\ last.err = OK
    /\ last.op = "append_child"
    /\ NamedElement # RootHandle
    /\ last.pre.elems[NamedElement].children # <<>>
    /\ Len(elems[NamedElement].children) = Len(last.pre.elems[NamedElement].children) + 1
    /\ elems[NamedElement].children[Len(elems[NamedElement].children)] = CreatedElement

\* C26 (edit_id re-keys the index): right after a successful
\* edit_id(oldId, newId) the same element carries the id newId, id_map[newId]
\* is that element, oldId is no key of id_map, every other key of id_map is
\* as before, and the element's tag, text, children, position and the whole
\* parent_map are unchanged.
C26_EditIdRekeys ==
    (kind = "xml" /\ last.err = OK /\ last.op = "edit_id") =>
        LET e == NamedElement IN
        /\ elems = [last.pre.elems EXCEPT ![e].id = last.args.new_id]
        /\ last.args.new_id \in DOMAIN id_map
        /\ id_map[last.args.new_id] = e
        /\ last.args.id \notin DOMAIN id_map
        /\ \A k \in DOMAIN id_map \ {last.args.new_id} :
              k \in DOMAIN last.pre.id_map /\ id_map[k] = last.pre.id_map[k]
        /\ DOMAIN id_map = (DOMAIN last.pre.id_map \ {last.args.id}) \cup {last.args.new_id}
        /\ parent_map = last.pre.parent_map

\* An element with a child and a parent got a new id.
C26_Witness ==
    /\ kind = "xml"
    /\ last.err = OK
    /\ last.op = "edit_id"
    /\ elems[NamedElement].children # <<>>
    /\ NamedElement \in DOMAIN parent_map
    /\ elems[NamedElement].id = last.args.new_id
    /\ last.pre.elems[NamedElement].id = last.args.id
    /\ last.args.id # last.args.new_id

\* edit_text on the id of an element of the tree: the element's text is
\* the text given, or absent when that is empty, and nothing else changes
\* in the tree or the indexes.
EditTextOfKnownIds ==
    kind = "xml" =>
        \A id \in IdInputs \cap TreeIds(CurXs), text \in XmlTextInputs :
            LET r == EditText(CurXs, id, text)
                e == id_map[id]
            IN  /\ r.err = OK
                /\ r.xs.elems = [elems EXCEPT ![e].text = IF text # "" THEN text ELSE None]
                /\ r.xs.id_map = id_map
                /\ r.xs.parent_map = parent_map

\* edit_text on an id that is not in the tree raises the unknown-id error
\* and changes nothing.
EditTextOfUnknownIds ==
    kind = "xml" =>
        \A id \in IdInputs \ TreeIds(CurXs), text \in XmlTextInputs :
            EditText(CurXs, id, text) = XResult(UnknownId, CurXs)

\* C27 (edit_text): for every known id, edit_text(id, text) sets the
\* element's text to text when text is non-empty and to absent when it is
\* empty, and changes nothing else in the tree or the indexes; it fails with
\* the unknown-id error when id is not in the tree.
C27_EditText ==
    EditTextOfKnownIds /\ EditTextOfUnknownIds

\* undo() and redo() of a TextEditor return True exactly when their stack
\* has a command, mark the document modified when they do, right after
\* save too, and change nothing when they return False.
TextUndoRedoAvailability ==
    kind = "text" =>
        LET u == Undo(CurEd)
            r == Redo(CurEd)
            su == Undo(Saved(CurEd))
            sr == Redo(Saved(CurEd))
        IN  /\ u.err = OK <=> undo_stack # <<>>
            /\ r.err = OK <=> redo_stack # <<>>
            /\ u.err = OK => u.ed.modified /\ su.ed.modified
            /\ r.err = OK => r.ed.modified /\ sr.ed.modified
            /\ u.err # OK => u = Out(NothingToDo, CurEd) /\ su = Out(NothingToDo, Saved(CurEd))
            /\ r.err # OK => r = Out(NothingToDo, CurEd) /\ sr = Out(NothingToDo, Saved(CurEd))

\* The same for an XmlEditor.
TreeUndoRedoAvailability ==
    kind = "xml" =>
        LET u == XUndo(CurXs)
            r == XRedo(CurXs)
            su == XUndo(XSaved(CurXs))
            sr == XRedo(XSaved(CurXs))
        IN  /\ u.err = OK <=> undo_stack # <<>>
            /\ r.err = OK <=> redo_stack # <<>>
            /\ u.err = OK => u.xs.modified /\ su.xs.modified
            /\ r.err = OK => r.xs.modified /\ sr.xs.modified
            /\ u.err # OK => u = XResult(NothingToDo, CurXs)
                             /\ su = XResult(NothingToDo, XSaved(CurXs))
            /\ r.err # OK => r = XResult(NothingToDo, CurXs)
                             /\ sr = XResult(NothingToDo, XSaved(CurXs))

\* C28 (undo/redo availability): undo() returns True exactly when the undo
\* stack was non-empty and redo() exactly when the redo stack was non-empty;
\* when they return True the document is marked modified, even right after
\* save; when they return False the content, both stacks and the modified
\* flag are unchanged.
C28_UndoRedoAvailability ==
    TextUndoRedoAvailability /\ TreeUndoRedoAvailability


\* C29 (end of line is a legal insertion point): on a non-empty document,
\* for every line l, insert at (l, len(line l) + 1) with a newline-free text
\* succeeds and yields that line with the text appended at its end, the
\* other lines as they were, while insert at (l, len(line l) + 2) fails and
\* changes nothing.
C29_EndOfLineInsertion ==
    (CanEdit /\ lines # <<>>) =>
        \A l \in 1..Len(lines), t \in PlainTexts :
            LET n == Len(lines[l])
                r == Insert(CurEd, l, n + 1, t)
                f == Insert(CurEd, l, n + 2, t)
            IN  /\ r.err = OK
                /\ r.ed.lines = [lines EXCEPT ![l] = @ \o t]
                /\ f = Out(PositionOutOfBounds, CurEd)

\* An insert of a newline-free text has run at the end of the last line of a
\* document of two or more lines, and the line now ends with the text.
C29_Witness ==
    /\ kind = "text" /\ last.err = OK /\ last.op = "insert"
    /\ Len(last.pre.lines) >= 2
    /\ last.args.line = Len(last.pre.lines)
    /\ last.pre.lines[last.args.line] # <<>>
    /\ last.args.col = Len(last.pre.lines[last.args.line]) + 1
    /\ last.args.text \in PlainTexts \ {<<>>}
    /\ lines = [last.pre.lines EXCEPT ![last.args.line] = @ \o last.args.text]


\* The command names the edit commands of the Workspace emit.
EditCommandNames ==
    {"append", "insert", "delete", "replace", "insert-before", "append-child",
     "edit-id", "edit-text", "undo", "redo"}

\* The step is an edit command whose document operation succeeded: a
\* forward operation that returned normally, or an undo or redo that
\* returned True.
CommandSucceeded ==
    /\ last'.err = OK
    /\ nops' = nops + 1 \/ nur' = nur + 1

\* The editor as it is.
CurrentEditor == IF kind = "text" THEN CurEd ELSE CurXs

\* C30 (notification only after a committed success): an edit command of the
\* Workspace whose document operation succeeds emits exactly one command
\* event, with its own name and arguments, and the subscriber handed the
\* event finds the document already in its new state; a command whose
\* operation fails, and an undo or redo with nothing to do, emits none.
C30_NotificationAfterCommit ==
    [][IF CommandSucceeded
       THEN /\ emitted' = emitted + 1
            /\ event'.command \in EditCommandNames
            /\ event'.args = last'.args
            /\ seen' = CurrentEditor'
            /\ seen' # CurrentEditor
       ELSE UNCHANGED busVars]_vars

\* Two commands have emitted their events, the second the undo of an
\* insert-before, and the subscriber has found the document as it is now.
C30_Witness ==
    /\ emitted = 2
    /\ event.command = "undo"
    /\ redo_stack # <<>> /\ redo_stack[Len(redo_stack)].type = "XmlInsertBeforeCommand"
    /\ last.op = "undo" /\ last.err = OK
    /\ seen = CurrentEditor


\* The editor a command leaves, computed from the editor before it and the
\* call recorded in `last` after it.
Mutation ==
    CASE last'.op = "append" -> AppendText(CurEd, last'.args.text).ed
      [] last'.op = "edit_text" -> EditText(CurXs, last'.args.id, last'.args.text).xs

\* C31 (handler failure isolation): when a subscribed handler raises during
\* EventBus.emit, emit still returns normally, every handler subscribed to
\* the event is called once for each of its subscriptions, in subscription
\* order, the handlers after the failing one included, and the document
\* mutation that triggered the event stays applied.
C31_HandlerFailureIsolation ==
    [][(CommandSucceeded /\ Contains(subscribers, "faulty")) =>
            /\ delivery'.returned
            /\ delivery'.calls = subscribers
            /\ emitted' = emitted + Len(SelectSeq(subscribers, LAMBDA h : h = "recorder"))
            /\ Contains(subscribers, "recorder") => seen' = CurrentEditor'
            /\ CurrentEditor' = Mutation
            /\ CurrentEditor' # CurrentEditor]_vars

\* An append has emitted its event to a handler that raised and then to the
\* recorder, which found the appended line in the document.
C31_Witness ==
    /\ subscribers = <<"faulty", "recorder">>
    /\ delivery = [calls |-> <<"faulty", "recorder">>, returned |-> TRUE]
    /\ last.op = "append" /\ last.err = OK
    /\ event.command = "append"
    /\ seen = CurEd
    /\ Len(lines) = Len(last.pre.lines) + 1


(***************************************************************************)
(* Properties of the Workspace and its files.  `last_cmd` holds the last   *)
(* command given and the file it named.                                    *)
(***************************************************************************)
\* The first line of the file f is a log directive.
StartsWithDirective(f) ==
    f.exists /\ ParseLogConfig(Split(f.content)[1]).enabled

\* The editors the Workspace has open, by path.
OpenPaths == {p \in Paths : IsOpen(editors, p)}

\* The last command was a load of a file whose first line is a log
\* directive.
AfterDirectiveLoad ==
    /\ last_cmd.name = "load"
    /\ StartsWithDirective(disk.files[last_cmd.file])

\* Loading a file whose first line is a directive enables logging with the
\* exclusions the directive lists, in the editor and in the FileLogger.
DirectiveLoadEnablesLogging ==
    AfterDirectiveLoad =>
        LET ed == EditorOf(editors, last_cmd.file)
            cfg == ParseLogConfig(Split(disk.files[last_cmd.file].content)[1])
        IN  /\ ed.logging_enabled
            /\ ed.excluded_log_commands = cfg.excluded
            /\ IsEnabled(file_logger, last_cmd.file)
            /\ file_logger.enabled_files[last_cmd.file] = cfg.excluded

\* C32 (log directive is not document content): loading a text file whose
\* first line is a log directive enables logging with the listed exclusions
\* and removes that line from the line sequence, so that line 1 is the first
\* content line; save writes the directive as the first line of the file
\* exactly when logging is enabled for the document.
C32_LogDirectiveNotContent ==
    /\ DirectiveLoadEnablesLogging
    /\ AfterDirectiveLoad =>
           EditorOf(editors, last_cmd.file).lines =
               Tail(Split(disk.files[last_cmd.file].content))
    /\ \A p \in OpenPaths :
           StartsWithDirective(Written(EditorOf(editors, p)))
               <=> EditorOf(editors, p).logging_enabled


\* The bounds a caller passes to show: omitted, or a line number from one
\* before the first line to one after the last.
ShowBounds == {<<>>} \cup {<<n>> : n \in (0 - 1)..(Len(lines) + 1)}

\* The string show returns for line i.
Numbered(i) == Decimal(i) \o ": " \o Str(lines[i])

\* C33 (show is a clamped read): show(start, end) returns the strings
\* "<i>: <lines[i-1]>" for i from max(1, start) to min(len(lines), end) in
\* increasing order, every line when both bounds are omitted, and an empty
\* sequence for an empty document or an empty range; it returns a list and
\* assigns to no field, so lines, history stacks and modified flag stay.
C33_ShowClampedRead ==
    CanEdit =>
        /\ Show(CurEd, <<>>, <<>>) = [i \in 1..Len(lines) |-> Numbered(i)]
        /\ \A start \in ShowBounds, end \in ShowBounds :
              LET from == IF start = <<>> THEN 1
                          ELSE IF start[1] < 1 THEN 1 ELSE start[1]
                  to == IF end = <<>> THEN Len(lines)
                        ELSE IF end[1] > Len(lines) THEN Len(lines) ELSE end[1]
                  out == Show(CurEd, start, end)
              IN  /\ Len(out) = (IF from > to THEN 0 ELSE to - from + 1)
                  /\ \A k \in 1..Len(out) : out[k] = Numbered(from + k - 1)

\* A document of two lines, the second with text: show(2, 5) returns the
\* second line alone, numbered 2, and show(0, 1) the first.
C33_Witness ==
    /\ kind = "text" /\ Len(lines) = 2 /\ lines[2] # <<>>
    /\ last.op \in ForwardOps /\ last.err = OK
    /\ Show(CurEd, <<2>>, <<5>>) = <<"2: " \o Str(lines[2])>>
    /\ Show(CurEd, <<0>>, <<1>>) = <<"1: " \o Str(lines[1])>>
    /\ Show(CurEd, <<2>>, <<1>>) = <<>>


\* C34 (replace equals delete-then-insert): right after a replace(pos,
\* length, text) that passed validation, with a text with or without
\* newlines, delete(pos, length) followed by insert(pos, text) on the
\* document of before the call both return normally, and they leave the
\* line sequence the replace has left.
C34_ReplaceIsDeleteThenInsert ==
    (kind = "text" /\ last.op = "replace" /\ last.err = OK) =>
        LET a == last.args
            d == Delete(last.pre, a.line, a.col, a.length)
            i == Insert(d.ed, a.line, a.col, a.text)
        IN  /\ d.err = OK
            /\ i.err = OK
            /\ i.ed.lines = lines

\* A replace of a positive number of characters by a text with newlines was
\* applied: the document has more lines than before, and they are the lines
\* delete followed by insert produce from the document before the call.  A
\* one-line replace at the same place agrees with delete-then-insert too.
C34_Witness ==
    /\ kind = "text"
    /\ last.op = "replace" /\ last.err = OK
    /\ HasNL(last.args.text)
    /\ last.args.length > 0
    /\ Len(lines) > Len(last.pre.lines)
    /\ lines = Insert(Delete(last.pre, last.args.line, last.args.col, last.args.length).ed,
                      last.args.line, last.args.col, last.args.text).ed.lines
    /\ Replace(last.pre, last.args.line, last.args.col, 1, <<"x", "y">>).ed.lines
         = Insert(Delete(last.pre, last.args.line, last.args.col, 1).ed,
                  last.args.line, last.args.col, <<"x", "y">>).ed.lines
    /\ Replace(last.pre, last.args.line, last.args.col, 1, <<"x", "y">>).ed.lines
         # last.pre.lines


\* The line sequences left by undo() called again and again until it
\* returns False (the sequence ends there) or raises (it ends with the
\* error).
RECURSIVE UndoAll(_)
UndoAll(ed) ==
    LET u == Undo(ed) IN
    IF u.err = NothingToDo THEN <<>>
    ELSE IF u.err # OK THEN <<u.err>>
    ELSE <<u.ed.lines>> \o UndoAll(u.ed)

\* C36 (undo-all returns to the start): after a successful insert, delete,
\* replace or append in a history of such calls only (no undo or redo yet),
\* the first undo() leaves the line sequence of before that call, and the
\* undo() calls after it leave the line sequences they would have left had
\* the call not been made.  The initial document has an empty undo stack, so
\* by induction over the history every undo leaves the state before the
\* corresponding operation and the last one the initial line sequence.
C36_UndoAllReturnsToStart ==
    (kind = "text" /\ nur = 0 /\ last.op \in ForwardOps /\ last.err = OK) =>
        LET u == Undo(CurEd) IN
        /\ u.err = OK
        /\ u.ed.lines = last.pre.lines
        /\ UndoAll(u.ed) = UndoAll(last.pre)


\* The line `target` without the run of `length` characters that starts at
\* column col: no longer than target, and made of the characters before col
\* followed by those behind the run.
WithoutRun(new, target, col, length) ==
    /\ Len(new) <= Len(target)
    /\ Len(new) = Len(target) - length
    /\ \A k \in 1..Len(new) :
          IF k < col THEN new[k] = target[k]
          ELSE k + length \in 1..Len(target) /\ new[k] = target[k + length]

\* C37 (delete and replace never lengthen by deletion): in every state in
\* which the TextEditor is called (CanEdit), for every position and every
\* integer length, negative ones included, that delete accepts, the target
\* line after delete is the line before without the `length` characters
\* from col on, and so is never longer than before; replace by a text
\* without newline removes the same run before it puts the text at col.
C37_DeletionNeverLengthens ==
    CanEdit =>
        \A line \in LineArgs, col \in ColArgs, length \in DeleteLengths :
            LET d == Delete(CurEd, line, col, length)
                r == Replace(CurEd, line, col, length, <<"x">>)
            IN  /\ d.err = OK => WithoutRun(d.ed.lines[line], lines[line], col, length)
                /\ r.err = OK =>
                      /\ Len(r.ed.lines[line]) = Len(lines[line]) - length + 1
                      /\ r.ed.lines[line][col] = "x"
                      /\ WithoutRun(PyUpTo(r.ed.lines[line], col - 1)
                                       \o PyFrom(r.ed.lines[line], col),
                                    lines[line], col, length)


\* C38 (no stale index entries): after any sequence of tree operations, undo
\* and redo, with the empty string among the ids passed, every key k of
\* id_map is the id attribute of an element reachable from the root and
\* id_map[k] is that element; every key of parent_map is a reachable element
\* other than the root; and delete of any id either is refused by validation
\* or returns normally, never with an internal error.
C38_NoStaleIndexEntries ==
    kind = "xml" =>
        LET reach == Range(PreOrder(elems, RootHandle)) IN
        /\ \A k \in DOMAIN id_map :
              id_map[k] \in reach /\ elems[id_map[k]].id = k
        /\ DOMAIN parent_map \subseteq reach \ {RootHandle}
        /\ \A id \in IdInputs :
              XDelete(CurXs, id).err \in {OK} \cup XmlValidationErrors


\* The command events the Workspace may hand to the FileLogger: of a file
\* or of none, with a command name that a log directive of the model
\* excludes or one it does not.
LoggerEvents ==
    [file : Paths \cup {None}, command : {"append", "save"}, args : {"", "\"x\""}]

\* The entries of the log of p written in this run of the program.
ThisRun(p) == SubSeq(disk.logs[p], log_mark[p] + 1, Len(disk.logs[p]))

\* C35 (logger filtering): in every state of a session, a command event
\* handed to the FileLogger is appended to the log of a file exactly when it
\* names that file, the file is enabled in the FileLogger and the command is
\* not in the file's excluded list, and nothing else is appended but a
\* `session start` line in front of it; the entries a run of the program has
\* written to a log hold at most one `session start` line, and it is the
\* first of them.
C35_LoggerFiltering ==
    /\ \A evt \in LoggerEvents :
          LET w == OnCommand(Session, evt)
              entry == [command |-> evt.command, args |-> evt.args]
          IN  \A p \in Paths :
                 LET old == disk.logs[p]
                     new == w.disk.logs[p]
                     logged == /\ evt.file = p
                               /\ IsEnabled(file_logger, p)
                               /\ ~Contains(file_logger.enabled_files[p], evt.command)
                 IN  IF logged
                     THEN new \in {Append(old, entry),
                                   Append(Append(old, SessionStart), entry)}
                     ELSE new = old
    /\ \A p \in Paths :
          LET run == ThisRun(p) IN
          /\ \A i \in 2..Len(run) : run[i] # SessionStart
          /\ run # <<>> => run[1] = SessionStart

\* a.txt was loaded with a directive that excludes append, and an append to
\* it followed: its log holds `session start` and the load, not the append.
\* The same append on a file whose directive excludes nothing is logged.
C35_Witness ==
    /\ last_cmd.name = "append" /\ last_cmd.file = "a.txt"
    /\ IsEnabled(file_logger, "a.txt")
    /\ Contains(file_logger.enabled_files["a.txt"], "append")
    /\ ThisRun("a.txt") = <<SessionStart, [command |-> "load", args |-> "a.txt"]>>
    /\ Len(EditorOf(editors, "a.txt").lines) = 3
    /\ OnCommand(Session, [file |-> "a.txt", command |-> "save", args |-> ""]).disk.logs["a.txt"]
         = Append(disk.logs["a.txt"], [command |-> "save", args |-> ""])


\* C39 (the active document is always open): after any sequence of load,
\* init, close, edit, save, log and append commands and restarts, `active`
\* is None or the path of an open editor; and right after a close of the
\* file that was active, the closed file is not open, and `active` is
\* another open file if there is one and None if there is none.
C39_ActiveIsOpen ==
    /\ active = None \/ IsOpen(editors, active)
    /\ (last_cmd.name = "close" /\ last_cmd.file = last_cmd.was_active) =>
          /\ ~IsOpen(editors, last_cmd.file)
          /\ IF editors = <<>> THEN active = None
             ELSE active # last_cmd.file /\ IsOpen(editors, active)

\* Two files were opened and the active one, opened last, was closed: the
\* file opened first is the active one now.
C39_Witness ==
    /\ last_cmd.name = "close"
    /\ last_cmd.file = "untitled_1.txt"
    /\ last_cmd.was_active = "untitled_1.txt"
    /\ Keys(editors) = <<"a.txt">>
    /\ active = "a.txt"
    /\ ncmds = 3


\* C40 (the logger state follows the document flag): after any sequence of
\* load, init, close, log-on and log-off commands, for every open file the
\* FileLogger has the path enabled exactly when logging_enabled of its
\* editor is true, also when the path was closed and then loaded or
\* initialised again without logging.
C40_LoggerFollowsFlag ==
    \A p \in OpenPaths :
        IsEnabled(file_logger, p) <=> EditorOf(editors, p).logging_enabled

====
